---- MODULE Spec2Model ----
(***************************************************************************)
(* A model of the MEGG IoT backend: the batch work-process state machine   *)
(* (modules/work_process.py driven by modules/system_manager.py), the      *)
(* serial command engine of simple_iot_server.py, the calibration request  *)
(* path of the modular server and the two broadcasters.                    *)
(*                                                                         *)
(* Every coroutine is cut at its await points: one action is the code that *)
(* runs between two awaits, so the interleavings of the model are the ones *)
(* the asyncio event loop can produce.                                     *)
(***************************************************************************)
EXTENDS Integers, Sequences, FiniteSets, TLC

(***************************************************************************)
(* Bounds of the model.                                                    *)
(***************************************************************************)
\* the number of batches, and so of execute_work_process tasks, a behaviour starts
MaxRuns == 2
\* the largest egg_count a start_batch request carries
MaxEggs == 2
\* the number of send_arduino_command calls a behaviour makes
MaxCmds == 2
\* the number of lines the device sends in a behaviour
MaxLines == 2
\* the number of calibration requests a behaviour handles
MaxRequests == 2
\* the number of clients that connect in a behaviour
MaxClients == 2
\* the number of broadcasts a behaviour makes
MaxBroadcasts == 2
\* the number of serial ports of the machine
MaxPorts == 3
\* the largest batch of the specification of long batches
MaxBatch == 7
\* the calls of simulate_calibration made for one component
MaxSimulations == 2
\* the number of connect calls and of disconnect calls of a behaviour
MaxConnects == 2

(***************************************************************************)
(* Work process: modules/work_process.py                                   *)
(***************************************************************************)
VARIABLES
    current_status,     \* WorkProcessManager.current_status (ProcessStatus value)
    current_batch,      \* WorkProcessManager.current_batch: the batch dict, or None
    processing_stats,   \* WorkProcessManager.processing_stats
    component_status,   \* WorkProcessManager.component_status
    is_processing,      \* WorkProcessManager.is_processing
    current_egg_count,  \* WorkProcessManager.current_egg_count
    target_egg_count,   \* WorkProcessManager.target_egg_count
    runs,               \* the execute_work_process tasks: position, loop index, range bound
    events              \* what send_callback was given by each live run, in order

wpVars == <<current_status, current_batch, processing_stats,
            component_status, is_processing, current_egg_count,
            target_egg_count, runs, events>>

(***************************************************************************)
(* Serial command engine: simple_iot_server.py                             *)
(***************************************************************************)
VARIABLES
    arduino,                \* MEGGIoTServer.arduino is not None
    current_configuration,  \* a configuration with 'configurations' is stored
    in_waiting,             \* the lines in the serial input buffer, oldest first
    device_lines,           \* how many lines the device has sent
    wire,                   \* what was written to the device, in order
    cmds,                   \* the send_arduino_command calls and their tasks
    returned                \* what the call that returned last has returned

linkVars == <<arduino, current_configuration, in_waiting, device_lines, wire,
              cmds, returned>>

(***************************************************************************)
(* Calibration: system_manager.py, calibration.py, arduino_service.py      *)
(***************************************************************************)
VARIABLES
    is_connected,           \* ArduinoService.is_connected, the port being open
    arduino_status,         \* ArduinoService.arduino_status['components'][c]['status']
    active_calibrations,    \* CalibrationManager.active_calibrations
    serial_written,         \* the commands ArduinoService wrote to the device
    event_queue,            \* SystemManager.event_queue
    device,                 \* what the device is doing for each component
    cal_request,            \* the calibration request handled last and its answer
    published               \* the events _process_events has broadcast, in order

calVars == <<is_connected, arduino_status, active_calibrations, serial_written,
             event_queue, device, cal_request, published>>

(***************************************************************************)
(* The observer registry and broadcast: system_manager.py and              *)
(* simple_iot_server.py                                                    *)
(***************************************************************************)
VARIABLES
    server,                 \* which server runs: its broadcast is the one called
    connected_clients,      \* connected_clients, the registry of observers
    conn,                   \* the state of each client's connection
    bcs,                    \* the broadcast calls under way
    last_broadcast          \* the broadcast call that ended last

bcVars == <<server, connected_clients, conn, bcs, last_broadcast>>

(***************************************************************************)
(* The message dispatchers: websocket_server.py, render_server.py and      *)
(* simple_iot_server.py                                                    *)
(***************************************************************************)
VARIABLES
    handled                 \* the message handled last and what was sent for it

msgVars == <<handled>>

(***************************************************************************)
(* Connecting: ArduinoService.connect and disconnect,                      *)
(* MEGGIoTServer.connect_arduino                                           *)
(***************************************************************************)
VARIABLES
    ports,                  \* how each serial port of the machine behaves
    candidates,             \* the port lists the connect call was given
    connecting,             \* the connect call under way, or the last one
    serial_connection,      \* ArduinoService.serial_connection
    arduino_port,           \* the port of MEGGIoTServer.arduino, 0 for None
    disconnects             \* the calls of disconnect from outside connect

connVars == <<ports, candidates, connecting, serial_connection, arduino_port,
              disconnects>>

(***************************************************************************)
(* The replies to start_sorting and stop_sorting (simple_iot_server.py)    *)
(***************************************************************************)
VARIABLES
    sorting                 \* the sorting_result and sorting_stop_result messages
                            \* sent so far, oldest first, each with the task it is for

sortVars == <<sorting>>

(***************************************************************************)
(* The calibration router of MEGGIoTServer (simple_iot_server.py)          *)
(***************************************************************************)
VARIABLES
    calibration_router      \* the router: whether it has marked the component
                            \* calibrating, the call it waits for, and the last
                            \* result handle_calibration has broadcast

routerVars == <<calibration_router>>

(***************************************************************************)
(* The calls of CalibrationManager.simulate_calibration (calibration.py)   *)
(***************************************************************************)
VARIABLES
    simulation              \* for each component the await its call of
                            \* simulate_calibration is suspended at, the calls
                            \* made and how the last one ended

simVars == <<simulation>>

vars == <<wpVars, linkVars, calVars, bcVars, msgVars, connVars, sortVars,
          routerVars, simVars>>

Components == {"UNO", "HX711", "NEMA23", "SG90", "MG996R"}

ProcessStatus == {"idle", "getting_ready", "load_eggs", "ready_to_process",
                  "processing", "completed", "error"}

RunIds == 1..MaxRuns
EggCounts == 0..MaxEggs
Sizes == {"small", "medium", "large"}

ZeroStats == [totalProcessed |-> 0, goodEggs |-> 0, badEggs |-> 0,
              smallEggs |-> 0, mediumEggs |-> 0, largeEggs |-> 0]

\* current_batch: id names the task created with the batch (0: None);
\* completed and stats are the completion_time and stats keys
None == [id |-> 0, target_count |-> 0, completed |-> FALSE, stats |-> ZeroStats]
\* a task slot: pc is the await the task is suspended at, i and n the loop
\* index and the bound of range(); interrupted tells whether stop_processing
\* succeeded or reset_process was called since the task was created: "no",
\* "before_begin" (it was, before the task ran its first step), "in_unit" (it
\* was, and the unit then in progress is not finished yet) or "yes"
NoRun == [pc |-> "none", i |-> 0, n |-> 0, interrupted |-> "no"]

InitWP ==
    /\ current_status = "idle"
    /\ current_batch = None
    /\ processing_stats = ZeroStats
    /\ component_status = [c \in Components |-> FALSE]
    /\ is_processing = FALSE
    /\ current_egg_count = 0
    /\ target_egg_count = 0
    /\ runs = [r \in RunIds |-> NoRun]
    /\ events = [r \in RunIds |-> <<>>]

\* update_component_status(component, ready): a component the manager does
\* not track is ignored
update_component_status(c, ready) ==
    IF c \in Components
    THEN [component_status EXCEPT ![c] = ready]
    ELSE component_status

\* the (component, success) pairs of the calibration_result events
\* ArduinoService emits: CALIBRATION_START and CALIBRATION_COMPLETE name
\* their component with success True, ERROR names 'UNKNOWN' with success False
CalibrationResults ==
    {<<c, TRUE>> : c \in Components} \cup {<<"UNKNOWN", FALSE>>}

\* _on_arduino_calibration_result, as far as the work process sees it
OnCalibrationResult(c, success) ==
    /\ component_status' = update_component_status(c, success)
    /\ UNCHANGED <<current_status, current_batch, processing_stats,
                   is_processing, current_egg_count, target_egg_count, runs,
                   events>>

are_all_components_ready == \A c \in Components : component_status[c]

can_start_processing ==
    /\ current_status = "idle"
    /\ are_all_components_ready
    /\ ~is_processing

\* the task slot asyncio.create_task fills next
FreeRuns == {r \in RunIds : runs[r].pc = "none"}
NextRun == CHOOSE r \in FreeRuns : \A q \in FreeRuns : r <= q

\* the tasks that exist get to know that a stop or a reset went through
Interrupt(rs) ==
    [r \in RunIds |->
        IF rs[r].pc \in {"none", "done"} \/ rs[r].interrupted # "no" THEN rs[r]
        ELSE [rs[r] EXCEPT !.interrupted =
                 CASE rs[r].pc = "scheduled" -> "before_begin"
                   [] rs[r].pc = "unit" -> "in_unit"
                   [] OTHER -> "yes"]]

\* what start_batch(batch_id, egg_count) returns
\* the events kept once stop_processing or reset_process has interrupted runs
Forget(rs) == [r \in RunIds |-> IF rs[r].interrupted = "no" THEN events[r] ELSE <<>>]

start_batch_result ==
    IF can_start_processing
    THEN [success |-> TRUE, status |-> "getting_ready"]
    ELSE [success |-> FALSE, status |-> current_status]

\* handle_work_process_request, action start_batch: start_batch(batch_id,
\* egg_count) and, on success, create_task(execute_work_process(...))
HandleStartBatch(egg_count) ==
    IF can_start_processing
    THEN /\ FreeRuns # {}
         /\ current_batch' = [id |-> NextRun, target_count |-> egg_count,
                              completed |-> FALSE, stats |-> ZeroStats]
         /\ current_status' = "getting_ready"
         /\ current_egg_count' = 0
         /\ target_egg_count' = egg_count
         /\ processing_stats' = ZeroStats
         /\ runs' = [runs EXCEPT ![NextRun] =
                        [pc |-> "scheduled", i |-> 0, n |-> 0, interrupted |-> "no"]]
         /\ UNCHANGED <<component_status, is_processing, events>>
    ELSE UNCHANGED vars

\* what stop_processing() returns
stop_processing_result ==
    IF ~is_processing
    THEN [success |-> FALSE, stats |-> ZeroStats]
    ELSE [success |-> TRUE, stats |-> processing_stats]

\* handle_work_process_request, action stop_processing: stop_processing()
HandleStopProcessing ==
    IF ~is_processing
    THEN UNCHANGED vars
    ELSE /\ is_processing' = FALSE
         /\ current_status' = "idle"
         /\ runs' = Interrupt(runs)
         /\ events' = Forget(Interrupt(runs))
         /\ UNCHANGED <<current_batch, processing_stats, component_status,
                        current_egg_count, target_egg_count>>

\* handle_work_process_request, action reset_process: reset_process()
HandleResetProcess ==
    /\ current_status' = "idle"
    /\ current_batch' = None
    /\ is_processing' = FALSE
    /\ current_egg_count' = 0
    /\ target_egg_count' = 0
    /\ processing_stats' = ZeroStats
    /\ runs' = Interrupt(runs)
    /\ events' = Forget(Interrupt(runs))
    /\ UNCHANGED component_status

\* the events send_callback is given
UpdateEvent(status, st) ==
    [type |-> "process_update", status |-> status, egg_number |-> 0,
     current |-> 0, total |-> 0, stats |-> st]
EggEvent(k) ==
    [type |-> "egg_result", status |-> "", egg_number |-> k,
     current |-> 0, total |-> 0, stats |-> ZeroStats]
ProgressEvent(k, total, st) ==
    [type |-> "process_progress", status |-> "", egg_number |-> 0,
     current |-> k, total |-> total, stats |-> st]

\* send_callback(event) called by run r: the events of a run are all kept
\* while nothing has interrupted it, and only the last one afterwards
Emit(r, e) ==
    [events EXCEPT ![r] = IF runs[r].interrupted = "no" THEN Append(@, e) ELSE <<e>>]

SetPc(r, pc) == [runs EXCEPT ![r].pc = pc]

\* the task is over: nothing of it is kept but that it ended
EndTask(r) ==
    /\ runs' = [runs EXCEPT ![r] = [NoRun EXCEPT !.pc = "done"]]
    /\ events' = [events EXCEPT ![r] = <<>>]

\* execute_work_process up to the first await of _phase_getting_ready;
\* without a current batch it returns before the try statement
RunBegin(r) ==
    /\ runs[r].pc = "scheduled"
    /\ IF current_batch = None
       THEN /\ EndTask(r)
            /\ UNCHANGED <<current_status, is_processing>>
       ELSE /\ is_processing' = TRUE
            /\ current_status' = "getting_ready"
            /\ events' = Emit(r, UpdateEvent("getting_ready", ZeroStats))
            /\ runs' = SetPc(r, "getting_ready")
    /\ UNCHANGED <<current_batch, processing_stats, component_status,
                   current_egg_count, target_egg_count>>

\* a phase that sets the status, emits its process_update and sleeps
PhaseStep(r, from, to) ==
    /\ runs[r].pc = from
    /\ current_status' = to
    /\ events' = Emit(r, UpdateEvent(to, ZeroStats))
    /\ runs' = SetPc(r, to)
    /\ UNCHANGED <<current_batch, processing_stats, component_status,
                   is_processing, current_egg_count, target_egg_count>>

_phase_load_eggs(r) == PhaseStep(r, "getting_ready", "load_eggs")
_phase_ready_to_process(r) == PhaseStep(r, "load_eggs", "ready_to_process")
\* _phase_processing up to the await of its process_update
_phase_processing(r) == PhaseStep(r, "ready_to_process", "processing")

\* _phase_completed up to the await of its process_update
CompletedEffect(r) ==
    /\ current_status' = "completed"
    /\ current_batch' = IF current_batch # None
                        THEN [current_batch EXCEPT !.completed = TRUE,
                                                   !.stats = processing_stats]
                        ELSE current_batch
    /\ events' = Emit(r, UpdateEvent("completed", processing_stats))

\* the for statement of _phase_processing: range(self.target_egg_count) is
\* evaluated once, after the process_update was sent; an empty range falls
\* through to _phase_completed without an await
LoopStart(r) ==
    /\ runs[r].pc = "processing"
    /\ IF target_egg_count > 0
       THEN /\ runs' = [runs EXCEPT ![r].pc = "unit", ![r].i = 0,
                                    ![r].n = target_egg_count]
            /\ UNCHANGED <<current_status, current_batch, events>>
       ELSE /\ CompletedEffect(r)
            /\ runs' = SetPc(r, "finishing")
    /\ UNCHANGED <<processing_stats, component_status, is_processing,
                   current_egg_count, target_egg_count>>

\* statistics that count the size category of every egg, good or bad
CountEggOfAnyQuality(st, is_good, size) ==
    [totalProcessed |-> st.totalProcessed + 1,
     goodEggs |-> st.goodEggs + (IF is_good THEN 1 ELSE 0),
     badEggs |-> st.badEggs + (IF is_good THEN 0 ELSE 1),
     smallEggs |-> st.smallEggs + (IF size = "small" THEN 1 ELSE 0),
     mediumEggs |-> st.mediumEggs + (IF size = "medium" THEN 1 ELSE 0),
     largeEggs |-> st.largeEggs + (IF size = "large" THEN 1 ELSE 0)]

\* the statistics after one more egg of the given quality and size
CountEgg(st, is_good, size) ==
    [totalProcessed |-> st.totalProcessed + 1,
     goodEggs |-> st.goodEggs + (IF is_good THEN 1 ELSE 0),
     badEggs |-> st.badEggs + (IF is_good THEN 0 ELSE 1),
     smallEggs |-> st.smallEggs + (IF is_good /\ size = "small" THEN 1 ELSE 0),
     mediumEggs |-> st.mediumEggs + (IF is_good /\ size = "medium" THEN 1 ELSE 0),
     largeEggs |-> st.largeEggs + (IF is_good /\ size = "large" THEN 1 ELSE 0)]

\* _process_single_egg after its sleep: the egg is analysed, the statistics
\* updated and the egg_result sent
_process_single_egg(r) ==
    /\ runs[r].pc = "unit"
    /\ \E is_good \in BOOLEAN, size \in Sizes :
          processing_stats' = CountEgg(processing_stats, is_good, size)
    /\ current_egg_count' = current_egg_count + 1
    /\ events' = Emit(r, EggEvent(runs[r].i + 1))
    /\ runs' = [runs EXCEPT ![r].pc = "progress",
                            ![r].interrupted = IF @ = "in_unit" THEN "yes" ELSE @]
    /\ UNCHANGED <<current_status, current_batch, component_status,
                   is_processing, target_egg_count>>

\* a loop that sends the progress update every third egg only
LoopProgressEveryThird(r) ==
    /\ runs[r].pc = "progress"
    /\ LET k == runs[r].i + 1
           last == k = runs[r].n
       IN IF k % 3 = 0
          THEN /\ events' = Emit(r,
                       ProgressEvent(k, target_egg_count, processing_stats))
               /\ runs' = [runs EXCEPT ![r].i = k,
                                       ![r].pc = IF last THEN "completing" ELSE "unit"]
               /\ UNCHANGED <<current_status, current_batch>>
          ELSE IF last
               THEN /\ CompletedEffect(r)
                    /\ runs' = [runs EXCEPT ![r].i = k, ![r].pc = "finishing"]
               ELSE /\ runs' = [runs EXCEPT ![r].i = k, ![r].pc = "unit"]
                    /\ UNCHANGED <<current_status, current_batch, events>>
    /\ UNCHANGED <<processing_stats, component_status, is_processing,
                   current_egg_count, target_egg_count>>

\* the rest of a loop iteration of _phase_processing: the progress update
\* every third egg and on the last one, then the next iteration or, after the
\* last, _phase_completed
LoopProgress(r) ==
    /\ runs[r].pc = "progress"
    /\ LET k == runs[r].i + 1
           last == k = runs[r].n
       IN IF k % 3 = 0 \/ k = target_egg_count
          THEN /\ events' = Emit(r,
                       ProgressEvent(k, target_egg_count, processing_stats))
               /\ runs' = [runs EXCEPT ![r].i = k,
                                       ![r].pc = IF last THEN "completing" ELSE "unit"]
               /\ UNCHANGED <<current_status, current_batch>>
          ELSE IF last
               THEN /\ CompletedEffect(r)
                    /\ runs' = [runs EXCEPT ![r].i = k, ![r].pc = "finishing"]
               ELSE /\ runs' = [runs EXCEPT ![r].i = k, ![r].pc = "unit"]
                    /\ UNCHANGED <<current_status, current_batch, events>>
    /\ UNCHANGED <<processing_stats, component_status, is_processing,
                   current_egg_count, target_egg_count>>

\* _phase_completed entered after the last progress update was sent
_phase_completed(r) ==
    /\ runs[r].pc = "completing"
    /\ CompletedEffect(r)
    /\ runs' = SetPc(r, "finishing")
    /\ UNCHANGED <<processing_stats, component_status, is_processing,
                   current_egg_count, target_egg_count>>

\* send_callback raises in run r, which waits in it: the except clause sets
\* the status and emits the error update
CallbackRaises(r) ==
    /\ runs[r].pc \in {"getting_ready", "load_eggs", "ready_to_process",
                       "processing", "progress", "completing", "finishing"}
    /\ current_status' = "error"
    /\ events' = Emit(r, UpdateEvent("error", ZeroStats))
    /\ runs' = [runs EXCEPT ![r].pc = "failed",
                            ![r].interrupted = IF @ = "no" THEN "fault" ELSE @]
    /\ UNCHANGED <<current_batch, processing_stats, component_status,
                   is_processing, current_egg_count, target_egg_count>>

\* execute_work_process after the completed or the error update was sent:
\* return, finally
RunEnd(r) ==
    /\ runs[r].pc \in {"finishing", "failed"}
    /\ is_processing' = FALSE
    /\ EndTask(r)
    /\ UNCHANGED <<current_status, current_batch, processing_stats,
                   component_status, current_egg_count, target_egg_count>>

\* send_callback raises again while the except clause awaits it with the
\* error update: the exception leaves execute_work_process through the
\* finally clause and ends the task; "raised" marks the task that ended so
ErrorCallbackRaises(r) ==
    /\ runs[r].pc = "failed"
    /\ is_processing' = FALSE
    /\ runs' = [runs EXCEPT ![r] = [NoRun EXCEPT !.pc = "done",
                                                 !.interrupted = "raised"]]
    /\ events' = [events EXCEPT ![r] = <<>>]
    /\ UNCHANGED <<current_status, current_batch, processing_stats,
                   component_status, current_egg_count, target_egg_count>>

\* a run that has begun and not ended
RunActive(r) == runs[r].pc \notin {"none", "scheduled", "done"}

\* the variables of the other parts of the server
notWP == <<linkVars, calVars, bcVars, msgVars, connVars, sortVars,
           routerVars, simVars>>

NextWP ==
    \/ \E cr \in CalibrationResults :
          OnCalibrationResult(cr[1], cr[2]) /\ UNCHANGED notWP
    \/ \E n \in EggCounts : HandleStartBatch(n) /\ UNCHANGED notWP
    \/ HandleStopProcessing /\ UNCHANGED notWP
    \/ HandleResetProcess /\ UNCHANGED notWP
    \/ \E r \in RunIds : RunBegin(r) /\ UNCHANGED notWP
    \/ \E r \in RunIds : _phase_load_eggs(r) /\ UNCHANGED notWP
    \/ \E r \in RunIds : _phase_ready_to_process(r) /\ UNCHANGED notWP
    \/ \E r \in RunIds : _phase_processing(r) /\ UNCHANGED notWP
    \/ \E r \in RunIds : LoopStart(r) /\ UNCHANGED notWP
    \/ \E r \in RunIds : _process_single_egg(r) /\ UNCHANGED notWP
    \/ \E r \in RunIds : LoopProgress(r) /\ UNCHANGED notWP
    \/ \E r \in RunIds : _phase_completed(r) /\ UNCHANGED notWP
    \/ \E r \in RunIds : CallbackRaises(r) /\ UNCHANGED notWP
    \/ \E r \in RunIds : ErrorCallbackRaises(r) /\ UNCHANGED notWP
    \/ \E r \in RunIds : RunEnd(r) /\ UNCHANGED notWP

\* the egg counts of a long batch
BatchSizes == 0..MaxBatch

\* the work process with one batch, long enough for several progress
\* updates: the components are calibrated before the batch is started
NextBatch ==
    \/ \E c \in Components :
          /\ \A r \in RunIds : runs[r].pc = "none"
          /\ OnCalibrationResult(c, TRUE) /\ UNCHANGED notWP
    \/ \E n \in BatchSizes :
          /\ \A r \in RunIds : runs[r].pc = "none"
          /\ HandleStartBatch(n) /\ UNCHANGED notWP
    \/ HandleStopProcessing /\ UNCHANGED notWP
    \/ HandleResetProcess /\ UNCHANGED notWP
    \/ \E r \in RunIds : RunBegin(r) /\ UNCHANGED notWP
    \/ \E r \in RunIds : _phase_load_eggs(r) /\ UNCHANGED notWP
    \/ \E r \in RunIds : _phase_ready_to_process(r) /\ UNCHANGED notWP
    \/ \E r \in RunIds : _phase_processing(r) /\ UNCHANGED notWP
    \/ \E r \in RunIds : LoopStart(r) /\ UNCHANGED notWP
    \/ \E r \in RunIds : _process_single_egg(r) /\ UNCHANGED notWP
    \/ \E r \in RunIds : LoopProgress(r) /\ UNCHANGED notWP
    \/ \E r \in RunIds : _phase_completed(r) /\ UNCHANGED notWP
    \/ \E r \in RunIds : CallbackRaises(r) /\ UNCHANGED notWP
    \/ \E r \in RunIds : ErrorCallbackRaises(r) /\ UNCHANGED notWP
    \/ \E r \in RunIds : RunEnd(r) /\ UNCHANGED notWP

(***************************************************************************)
(* Serial command engine: MEGGIoTServer.send_arduino_command and its       *)
(* callers                                                                 *)
(***************************************************************************)
CmdIds == 1..MaxCmds

\* the command lines: one of each class the engine tells apart
Commands == {"STATUS", "START", "STOP", "CALIBRATE_HX711", "HOME"}

\* command.startswith("START")
IsStart(command) == command = "START"
\* command.strip() == "STOP"
IsStop(command) == command = "STOP"
\* "CALIBRATE" in command, command.startswith("CALIBRATE_")
IsCalibrate(command) == command = "CALIBRATE_HX711"

\* the lines the device sends: a blank line, a line without a marker, and
\* one line for each marker the engine looks for
Lines == {"", "HX711: Weight measured: 47.12 g", "CALIBRATION_COMPLETE:HX711",
          "ERROR:Sensor timeout", "STOP_ACK", "SYSTEM_STOPPED",
          "==================="}

\* marker in line
Contains(line, marker) ==
    CASE marker = "CALIBRATION_COMPLETE" -> line = "CALIBRATION_COMPLETE:HX711"
      [] marker = "ERROR" -> line = "ERROR:Sensor timeout"
      [] marker = "STOP_ACK" -> line = "STOP_ACK"
      [] marker = "SYSTEM_STOPPED" -> line = "SYSTEM_STOPPED"
      [] marker = "===================" -> line = "==================="
      [] OTHER -> FALSE

\* the budgets of the read loop, in idle polls of 0.1 s
StartBudget == 1200
StopBudget == 300
CalibrateBudget == 150
OtherBudget == 60

\* the budgets with the test for CALIBRATE left out
max_timeout_without_calibrate(command) ==
    IF IsStart(command) THEN StartBudget
    ELSE IF IsStop(command) THEN StopBudget
    ELSE OtherBudget

max_timeout(command) ==
    IF IsStart(command) THEN StartBudget
    ELSE IF IsStop(command) THEN StopBudget
    ELSE IF IsCalibrate(command) THEN CalibrateBudget
    ELSE OtherBudget

\* the lines and idle polls a STATUS response needs to be cut short
StatusLines == 5
StatusPolls == 5

\* the commands whose lines are broadcast while they are read
IsStreaming(command) == IsStart(command) \/ IsCalibrate(command)

\* the test that ends the read loop after a line was appended
EndsResponse(command, response_lines, line) ==
    \/ command = "STATUS" /\ Contains(line, "===================")
          /\ Len(response_lines) > StatusLines
    \/ Contains(line, "CALIBRATION_COMPLETE")
    \/ Contains(line, "ERROR")
    \/ IsStop(command) /\ (Contains(line, "STOP_ACK") \/ Contains(line, "SYSTEM_STOPPED"))

\* a call: pc is where it stands ("none": not made; "scheduled": its
\* background task is created; "settle", "wait": the sleeps after the buffers
\* were cleared and after the command was written; "reading": the read loop;
\* "broadcast": the await of a progress broadcast; "done": returned), timeout
\* the idle polls counted, response_lines the lines kept, streamed the lines
\* broadcast as progress
NoCmd == [pc |-> "none", command |-> "", background |-> FALSE, timeout |-> 0,
          response_lines |-> <<>>, streamed |-> <<>>]

\* a returned value: success and response as in the dict, error set when the
\* dict carries an error, with the call, its command and its idle polls.
\* ended_by tells what ended the call: "not_connected" (no link),
\* "exception" (the except clause), "marker" (a break after a line), "cut" (the
\* break of a STATUS response in the idle branch) or "budget" (the loop test)
NoResult == [by |-> 0, command |-> "", success |-> FALSE, error |-> "",
             response |-> <<>>, timeout |-> 0, ended_by |-> ""]

\* the message key of a result: the last line, or "No response"
Message(response_lines) ==
    IF response_lines # <<>> THEN response_lines[Len(response_lines)]
    ELSE "No response"

InitLink ==
    /\ arduino \in BOOLEAN
    /\ current_configuration = FALSE
    /\ in_waiting = <<>>
    /\ device_lines = 0
    /\ wire = <<>>
    /\ cmds = [t \in CmdIds |-> NoCmd]
    /\ returned = NoResult

\* the call returns: its frame is dropped and the value handed to the caller
Return(t, command, success, error, response_lines, timeout, ended_by) ==
    /\ cmds' = [cmds EXCEPT ![t] = [NoCmd EXCEPT !.pc = "done"]]
    /\ returned' = [by |-> t, command |-> command, success |-> success,
                    error |-> error, response |-> response_lines,
                    timeout |-> timeout, ended_by |-> ended_by]

FreeCmds == {t \in CmdIds : cmds[t].pc = "none"}
NextCmd == CHOOSE t \in FreeCmds : \A q \in FreeCmds : t <= q

\* a call is in flight from the moment it has found the link connected until
\* it returns
InFlight(t) == cmds[t].pc \in {"settle", "wait", "reading", "broadcast"}

\* the handler of set_configuration with an accountId and configurations
SetConfiguration ==
    /\ current_configuration' = TRUE
    /\ UNCHANGED <<arduino, in_waiting, device_lines, wire, cmds, returned>>

\* the device puts a line into the input buffer
DeviceSends(line) ==
    /\ arduino
    /\ device_lines < MaxLines
    /\ device_lines' = device_lines + 1
    /\ in_waiting' = Append(in_waiting, line)
    /\ UNCHANGED <<arduino, current_configuration, wire, cmds, returned>>

\* send_arduino_command up to its first await: without a link it returns at
\* once, else it clears the buffers and sleeps
Enter(t, command, background) ==
    IF ~arduino
    THEN /\ Return(t, command, FALSE, "Arduino not connected", <<>>, 0,
                   "not_connected")
         /\ UNCHANGED in_waiting
    ELSE /\ in_waiting' = <<>>
         /\ cmds' = [cmds EXCEPT ![t] = [NoCmd EXCEPT !.pc = "settle",
                        !.command = command, !.background = background]]
         /\ UNCHANGED returned

\* the handler of send_command: with a link, send_arduino_command(cmd)
HandleSendCommand(command) ==
    /\ FreeCmds # {}
    /\ arduino
    /\ Enter(NextCmd, command, FALSE)
    /\ UNCHANGED <<arduino, current_configuration, device_lines, wire>>

\* get_weight_reading: with a link, send_arduino_command("STATUS")
get_weight_reading ==
    /\ FreeCmds # {}
    /\ arduino
    /\ Enter(NextCmd, "STATUS", FALSE)
    /\ UNCHANGED <<arduino, current_configuration, device_lines, wire>>

\* start_sorting_process and stop_sorting_process: the marker is written to
\* the link at once, the command is left to a background task
SortingProcess(marker, command) ==
    /\ FreeCmds # {}
    /\ arduino
    /\ wire' = Append(wire, [by |-> 0, text |-> marker])
    /\ cmds' = [cmds EXCEPT ![NextCmd] = [NoCmd EXCEPT !.pc = "scheduled",
                   !.command = command, !.background = TRUE]]
    /\ UNCHANGED <<arduino, current_configuration, in_waiting, device_lines,
                   returned>>

start_sorting_process ==
    /\ current_configuration
    /\ SortingProcess("CMD:START_SORTING", "START")

stop_sorting_process == SortingProcess("CMD:STOP_SORTING", "STOP")

\* _execute_long_running_command_and_broadcast_result: the task's first step
BackgroundBegin(t) ==
    /\ cmds[t].pc = "scheduled"
    /\ Enter(t, cmds[t].command, TRUE)
    /\ UNCHANGED <<arduino, current_configuration, device_lines, wire>>

\* after the first sleep the command is written and flushed
WriteCommand(t) ==
    /\ cmds[t].pc = "settle"
    /\ wire' = Append(wire, [by |-> t, text |-> cmds[t].command])
    /\ cmds' = [cmds EXCEPT ![t].pc = "wait"]
    /\ UNCHANGED <<arduino, current_configuration, in_waiting, device_lines,
                   returned>>

\* after the second sleep the read loop is entered
StartReading(t) ==
    /\ cmds[t].pc = "wait"
    /\ cmds' = [cmds EXCEPT ![t].pc = "reading"]
    /\ UNCHANGED <<arduino, current_configuration, in_waiting, device_lines, wire,
                   returned>>

\* the read loop of a command that is not streamed, run on the lines in the
\* buffer: blank lines are dropped, the others kept, up to the line that ends
\* the response
RECURSIVE ReadAll(_, _, _)
ReadAll(command, response_lines, buffer) ==
    IF buffer = <<>>
    THEN [response_lines |-> response_lines, buffer |-> buffer, ended |-> FALSE]
    ELSE LET line == Head(buffer)
             kept == Append(response_lines, line)
         IN IF line = "" THEN ReadAll(command, response_lines, Tail(buffer))
            ELSE IF EndsResponse(command, kept, line)
            THEN [response_lines |-> kept, buffer |-> Tail(buffer), ended |-> TRUE]
            ELSE ReadAll(command, kept, Tail(buffer))

\* the buffer without its leading blank lines
RECURSIVE DropBlank(_)
DropBlank(buffer) ==
    IF buffer # <<>> /\ Head(buffer) = "" THEN DropBlank(Tail(buffer)) ELSE buffer

\* the read loop with lines waiting. A command that is not streamed reads
\* them without an await; a streamed one awaits the broadcast of each line
ReadLines(t) ==
    /\ cmds[t].pc = "reading"
    /\ cmds[t].timeout < max_timeout(cmds[t].command)
    /\ in_waiting # <<>>
    /\ IF IsStreaming(cmds[t].command)
       THEN LET buffer == DropBlank(in_waiting)
            IN IF buffer = <<>>
               THEN /\ in_waiting' = <<>>
                    /\ UNCHANGED <<cmds, returned>>
               ELSE /\ in_waiting' = Tail(buffer)
                    /\ cmds' = [cmds EXCEPT
                          ![t].response_lines = Append(@, Head(buffer)),
                          ![t].streamed = Append(@, Head(buffer)),
                          ![t].pc = "broadcast"]
                    /\ UNCHANGED returned
       ELSE LET read == ReadAll(cmds[t].command, cmds[t].response_lines, in_waiting)
            IN /\ in_waiting' = read.buffer
               /\ IF read.ended
                  THEN Return(t, cmds[t].command, TRUE, "", read.response_lines,
                              cmds[t].timeout, "marker")
                  ELSE /\ cmds' = [cmds EXCEPT
                                      ![t].response_lines = read.response_lines]
                       /\ UNCHANGED returned
    /\ UNCHANGED <<arduino, current_configuration, device_lines, wire>>

\* a streamed command after the broadcast of a line: the tests that end the
\* response
AfterBroadcast(t) ==
    /\ cmds[t].pc = "broadcast"
    /\ LET lines == cmds[t].response_lines
           ended == EndsResponse(cmds[t].command, lines, lines[Len(lines)])
       IN IF ended
          THEN Return(t, cmds[t].command, TRUE, "", lines, cmds[t].timeout,
                      "marker")
          ELSE /\ cmds' = [cmds EXCEPT ![t].pc = "reading"]
               /\ UNCHANGED returned
    /\ UNCHANGED <<arduino, current_configuration, in_waiting, device_lines, wire>>

\* the idle polls a silent device is given at a time: the polls that cut a
\* STATUS response short, then the rest of the budget
IdlePolls(t) ==
    LET rest == max_timeout(cmds[t].command) - cmds[t].timeout
    IN IF cmds[t].timeout = 0 THEN {StatusPolls + 1, rest} ELSE {rest}

\* the read loop with nothing waiting, for k polls in a row: each sleeps and
\* counts; a STATUS response of enough lines ends once enough polls are counted
Idle(t, k) ==
    /\ cmds[t].pc = "reading"
    /\ cmds[t].timeout < max_timeout(cmds[t].command)
    /\ in_waiting = <<>>
    /\ LET cut == /\ cmds[t].command = "STATUS"
                  /\ Len(cmds[t].response_lines) > StatusLines
           first == IF cmds[t].timeout + 1 > StatusPolls THEN cmds[t].timeout + 1
                    ELSE StatusPolls + 1
           reached == IF cut /\ first <= cmds[t].timeout + k THEN first
                      ELSE cmds[t].timeout + k
           ended == (cut /\ reached = first) \/ reached >= max_timeout(cmds[t].command)
       IN IF ended
          THEN Return(t, cmds[t].command, TRUE, "", cmds[t].response_lines, reached,
                      IF cut /\ reached = first THEN "cut" ELSE "budget")
          ELSE /\ cmds' = [cmds EXCEPT ![t].timeout = reached]
               /\ UNCHANGED returned
    /\ UNCHANGED <<arduino, current_configuration, in_waiting, device_lines, wire>>

\* the failure taken for a silent device: the lines read so far are returned
LinkFailsSilently(t) ==
    /\ cmds[t].pc \in {"settle", "reading", "broadcast"}
    /\ Return(t, cmds[t].command, TRUE, "", cmds[t].response_lines,
              cmds[t].timeout, "exception")
    /\ UNCHANGED <<arduino, current_configuration, in_waiting, device_lines, wire>>

\* the write, a read or a progress broadcast raises: the except clause
\* returns the error
LinkFails(t) ==
    /\ cmds[t].pc \in {"settle", "reading", "broadcast"}
    /\ Return(t, cmds[t].command, FALSE, "exception", <<>>, cmds[t].timeout,
              "exception")
    /\ UNCHANGED <<arduino, current_configuration, in_waiting, device_lines, wire>>

\* the variables of the other parts of the server
notLink == <<wpVars, calVars, bcVars, msgVars, connVars, sortVars,
             routerVars, simVars>>

NextLink ==
    \/ SetConfiguration /\ UNCHANGED notLink
    \/ \E line \in Lines : DeviceSends(line) /\ UNCHANGED notLink
    \/ \E command \in Commands : HandleSendCommand(command) /\ UNCHANGED notLink
    \/ get_weight_reading /\ UNCHANGED notLink
    \/ start_sorting_process /\ UNCHANGED notLink
    \/ stop_sorting_process /\ UNCHANGED notLink
    \/ \E t \in CmdIds : BackgroundBegin(t) /\ UNCHANGED notLink
    \/ \E t \in CmdIds : WriteCommand(t) /\ UNCHANGED notLink
    \/ \E t \in CmdIds : StartReading(t) /\ UNCHANGED notLink
    \/ \E t \in CmdIds : ReadLines(t) /\ UNCHANGED notLink
    \/ \E t \in CmdIds : AfterBroadcast(t) /\ UNCHANGED notLink
    \/ \E t \in CmdIds : \E k \in IdlePolls(t) : Idle(t, k) /\ UNCHANGED notLink
    \/ \E t \in CmdIds : LinkFails(t) /\ UNCHANGED notLink

(***************************************************************************)
(* Calibration requests: SystemManager.handle_calibration_request, the     *)
(* CalibrationManager marks, ArduinoService and the event queue            *)
(***************************************************************************)
\* the component names a calibration request carries: the tracked ones, none,
\* a tracked one in lower case, and one that is not tracked
RequestComponents == Components \cup {"", "hx711", "LASER"}

\* component.upper()
Upper(component) == IF component = "hx711" THEN "HX711" ELSE component

\* command_map of ArduinoService.calibrate_component
command_map == [c \in Components |->
    CASE c = "UNO" -> "CALIBRATE_UNO"
      [] c = "HX711" -> "CALIBRATE_HX711"
      [] c = "NEMA23" -> "CALIBRATE_NEMA23"
      [] c = "SG90" -> "CALIBRATE_SG90"
      [] c = "MG996R" -> "CALIBRATE_MG996R"]

NoRequest == [n |-> 0, component |-> "", answer |-> "none"]

\* the events ArduinoService emits: seq is the position of the event among
\* all the events put on the queue, given by Put
CalibrationEvent(component, success, status) ==
    [type |-> "calibration_result", component |-> component,
     success |-> success, status |-> status, seq |-> 0]
DataEvent(message) ==
    [type |-> "arduino_data", component |-> message, success |-> FALSE,
     status |-> "", seq |-> 0]
ConnectedEvent ==
    [type |-> "arduino_connected", component |-> "", success |-> TRUE,
     status |-> "", seq |-> 1]

\* _emit and the _on_arduino_*_sync listeners: event_queue.put of each event
Put(emitted) ==
    event_queue \o [k \in 1..Len(emitted) |->
        [emitted[k] EXCEPT !.seq = Len(published) + Len(event_queue) + k]]

\* connect has emitted arduino_connected before the event processor starts
InitCal ==
    /\ is_connected \in BOOLEAN
    /\ arduino_status = [c \in Components |-> "unknown"]
    /\ active_calibrations = [c \in RequestComponents |-> FALSE]
    /\ serial_written = <<>>
    /\ event_queue = IF is_connected THEN <<ConnectedEvent>> ELSE <<>>
    /\ device = [c \in Components |-> [pending |-> 0, started |-> FALSE,
                                       failed |-> FALSE]]
    /\ cal_request = NoRequest
    /\ published = <<>>

\* CalibrationManager.start_calibration, complete_calibration, is_calibrating
start_calibration(component) == [active_calibrations EXCEPT ![component] = TRUE]
complete_calibration(component) == [active_calibrations EXCEPT ![component] = FALSE]
is_calibrating(component) == active_calibrations[component]

\* ArduinoService.is_arduino_connected
is_arduino_connected == is_connected

\* the message handle_calibration_request sends to the requester; "none" when
\* the command was sent and the answer is left to the events of the device
Answer(component, sent) ==
    IF component = "" THEN "Component not specified"
    ELSE IF is_calibrating(component) THEN "is already calibrating"
    ELSE IF ~is_arduino_connected THEN "Arduino not connected"
    ELSE IF Upper(component) \notin Components \/ ~sent
    THEN "Failed to send calibration command to Arduino"
    ELSE "none"

\* handle_calibration_request(component): sent tells whether the write of
\* _send_command goes through
handle_calibration_request(component, sent) ==
    /\ cal_request.n < MaxRequests
    /\ cal_request' = [n |-> cal_request.n + 1, component |-> component,
                       answer |-> Answer(component, sent)]
    /\ IF Answer(component, sent) = "none"
       THEN /\ serial_written' = Append(serial_written, command_map[Upper(component)])
            /\ device' = [device EXCEPT ![Upper(component)].pending = @ + 1]
       ELSE UNCHANGED <<serial_written, device>>
    /\ UNCHANGED <<is_connected, arduino_status, active_calibrations, event_queue,
                   published>>

\* _read_serial and _process_arduino_message for CALIBRATION_START:<component>
CalibrationStart(c) ==
    /\ device[c].pending > 0
    /\ ~device[c].started
    /\ device' = [device EXCEPT ![c].pending = @ - 1, ![c].started = TRUE,
                                ![c].failed = FALSE]
    /\ arduino_status' = [arduino_status EXCEPT ![c] = "calibrating"]
    /\ event_queue' = Put(<<CalibrationEvent(c, TRUE, "started"),
                             DataEvent("CALIBRATION_START")>>)
    /\ UNCHANGED <<is_connected, active_calibrations, serial_written, cal_request,
                   published>>

\* _read_serial and _process_arduino_message for CALIBRATION_COMPLETE:<component>
CalibrationComplete(c) ==
    /\ device[c].started
    /\ device' = [device EXCEPT ![c].started = FALSE]
    /\ arduino_status' = [arduino_status EXCEPT ![c] = "calibrated"]
    /\ event_queue' = Put(<<CalibrationEvent(c, TRUE, "completed"),
                             DataEvent("CALIBRATION_COMPLETE")>>)
    /\ UNCHANGED <<is_connected, active_calibrations, serial_written, cal_request,
                   published>>

\* _read_serial and _process_arduino_message for ERROR:<text>
CalibrationError(c) ==
    /\ device[c].started
    /\ device' = [device EXCEPT ![c].started = FALSE, ![c].failed = TRUE]
    /\ event_queue' = Put(<<CalibrationEvent("UNKNOWN", FALSE, "failed"),
                             DataEvent("ERROR")>>)
    /\ UNCHANGED <<is_connected, arduino_status, active_calibrations,
                   serial_written, cal_request, published>>

\* one turn of the loop of _process_events with the event at position k of
\* the queue: its handler is awaited, so the event is broadcast before the
\* next one is taken; a calibration result first updates the readiness of its
\* component
Consume(k) ==
    /\ is_connected
    /\ k \in 1..Len(event_queue)
    /\ event_queue' = SubSeq(event_queue, 1, k - 1)
                         \o SubSeq(event_queue, k + 1, Len(event_queue))
    /\ published' = Append(published, event_queue[k])
    /\ IF event_queue[k].type = "calibration_result"
       THEN OnCalibrationResult(event_queue[k].component, event_queue[k].success)
       ELSE UNCHANGED wpVars
    /\ UNCHANGED <<is_connected, arduino_status, active_calibrations,
                   serial_written, device, cal_request>>

\* a consumer that takes the newest event first
NewestFirst == Consume(Len(event_queue))

\* _process_events: queue.get takes the oldest event
_process_events == Consume(1)

\* the variables of the other parts of the server
notCal == <<linkVars, bcVars, msgVars, connVars, sortVars, routerVars,
            simVars>>

NextCal ==
    \/ \E component \in RequestComponents, sent \in BOOLEAN :
          handle_calibration_request(component, sent) /\ UNCHANGED <<wpVars, notCal>>
    \/ \E c \in Components : CalibrationStart(c) /\ UNCHANGED <<wpVars, notCal>>
    \/ \E c \in Components : CalibrationComplete(c) /\ UNCHANGED <<wpVars, notCal>>
    \/ \E c \in Components : CalibrationError(c) /\ UNCHANGED <<wpVars, notCal>>
    \/ _process_events /\ UNCHANGED notCal

(***************************************************************************)
(* Broadcast: SystemManager.broadcast and                                  *)
(* MEGGIoTServer.broadcast_to_clients, with the handlers that register and *)
(* unregister clients                                                      *)
(***************************************************************************)
Clients == 1..MaxClients
BcIds == 1..MaxBroadcasts
Servers == {"system_manager", "simple_iot_server"}

\* what the set iterator yields when it is exhausted
End == 0

\* a connection: "absent" before the client connects, "open", "closed" once
\* the peer has closed it (send raises ConnectionClosed), "failing" when send
\* raises another exception, "gone" once its handler has ended
ConnStates == {"absent", "open", "closed", "failing", "gone"}

\* a broadcast call: pc is "none" before it is made, "iterating" at the await
\* of a send, "over" after it; in last_broadcast it is "done" when the call
\* returned and "raised" when an exception left it. size is the size of the
\* registry when the iteration began, changed whether the registry was
\* changed since, visited the clients the iterator has yielded, disconnected
\* the local set of that name. before, gone_before, delivered and failed
\* record the registry and the clients whose handler had ended at the call,
\* how often the message was sent to each client, and whose send raised
NoBroadcast == [pc |-> "none", size |-> 0, changed |-> FALSE, steps |-> 0,
                visited |-> {}, disconnected |-> {}, before |-> {},
                gone_before |-> {}, delivered |-> [c \in Clients |-> 0],
                failed |-> {}]

InitBc ==
    /\ server \in Servers
    /\ connected_clients = {}
    /\ conn = [c \in Clients |-> "absent"]
    /\ bcs = [b \in BcIds |-> NoBroadcast]
    /\ last_broadcast = NoBroadcast

\* the registry was changed: every iteration under way is marked
Touch(calls) ==
    [b \in BcIds |-> IF calls[b].pc = "iterating"
                     THEN [calls[b] EXCEPT !.changed = TRUE] ELSE calls[b]]

\* handle_client up to its first await: add_client
add_client(c) ==
    /\ conn[c] = "absent"
    /\ conn' = [conn EXCEPT ![c] = "open"]
    /\ connected_clients' = connected_clients \cup {c}
    /\ bcs' = Touch(bcs)
    /\ UNCHANGED <<server, last_broadcast>>

\* the peer closes the connection
PeerCloses(c) ==
    /\ conn[c] = "open"
    /\ conn' = [conn EXCEPT ![c] = "closed"]
    /\ UNCHANGED <<server, connected_clients, bcs, last_broadcast>>

\* the connection breaks so that send raises an error other than
\* ConnectionClosed
PeerFails(c) ==
    /\ conn[c] = "open"
    /\ conn' = [conn EXCEPT ![c] = "failing"]
    /\ UNCHANGED <<server, connected_clients, bcs, last_broadcast>>

\* the finally clause of handle_client: remove_client
remove_client(c) ==
    /\ conn[c] = "closed"
    /\ conn' = [conn EXCEPT ![c] = "gone"]
    /\ connected_clients' = connected_clients \ {c}
    /\ bcs' = IF c \in connected_clients THEN Touch(bcs) ELSE bcs
    /\ UNCHANGED <<server, last_broadcast>>

\* the call is over: its frame is dropped
Over == [NoBroadcast EXCEPT !.pc = "over"]

\* the exception leaves the broadcast: nothing is removed
Raise(b, it) ==
    /\ bcs' = [bcs EXCEPT ![b] = Over]
    /\ last_broadcast' = [it EXCEPT !.pc = "raised"]
    /\ UNCHANGED connected_clients

\* the loop is over: the clients collected are removed from the registry
Finish(b, it) ==
    /\ connected_clients' = connected_clients \ it.disconnected
    /\ bcs' = IF connected_clients \cap it.disconnected # {}
              THEN [Touch(bcs) EXCEPT ![b] = Over]
              ELSE [bcs EXCEPT ![b] = Over]
    /\ last_broadcast' = [it EXCEPT !.pc = "done"]

\* the body of the loop for client c: the send and the except clause, which
\* is "except Exception" in SystemManager and "except ConnectionClosed" in
\* MEGGIoTServer
Send(b, it, c) ==
    LET sent == [it EXCEPT !.pc = "iterating", !.steps = @ + 1,
                           !.visited = @ \cup {c}]
    IN IF conn[c] = "open"
       THEN /\ bcs' = [bcs EXCEPT ![b] = [sent EXCEPT !.delivered[c] = @ + 1]]
            /\ UNCHANGED <<connected_clients, last_broadcast>>
       ELSE IF conn[c] = "failing" /\ server = "simple_iot_server"
       THEN Raise(b, [sent EXCEPT !.failed = @ \cup {c}])
       ELSE /\ bcs' = [bcs EXCEPT ![b] = [sent EXCEPT !.failed = @ \cup {c},
                                             !.disconnected = @ \cup {c}]]
            /\ UNCHANGED <<connected_clients, last_broadcast>>

\* what the iterator of the set may yield next. Over an unchanged set it
\* yields each element once. Once the set was changed it raises when the
\* size differs; with the size the same its order is not defined: it may
\* yield any element or stop
Yields(it) ==
    IF ~it.changed
    THEN IF connected_clients \ it.visited = {} THEN {End}
         ELSE connected_clients \ it.visited
    ELSE IF it.steps < MaxClients THEN connected_clients \cup {End} ELSE {End}

\* one turn of "for client in connected_clients", from the iterator it
Iterate(b, it) ==
    IF Cardinality(connected_clients) # it.size
    THEN Raise(b, it)
    ELSE \E c \in Yields(it) : IF c = End THEN Finish(b, it) ELSE Send(b, it, c)

\* broadcast is called: with no client it returns, else the iteration begins
\* and runs to the await of the first send
broadcast(b) ==
    /\ bcs[b].pc = "none"
    /\ \A a \in BcIds : a < b => bcs[a].pc # "none"
    /\ LET called == [NoBroadcast EXCEPT !.before = connected_clients,
                         !.gone_before = {c \in Clients : conn[c] = "gone"},
                         !.size = Cardinality(connected_clients)]
       IN IF connected_clients = {}
          THEN /\ bcs' = [bcs EXCEPT ![b] = Over]
               /\ last_broadcast' = [called EXCEPT !.pc = "done"]
               /\ UNCHANGED connected_clients
          ELSE Iterate(b, called)
    /\ UNCHANGED <<server, conn>>

\* the send has returned or raised: the loop goes on
BroadcastNext(b) ==
    /\ bcs[b].pc = "iterating"
    /\ Iterate(b, bcs[b])
    /\ UNCHANGED <<server, conn>>

\* the variables of the other parts of the server
notBc == <<wpVars, linkVars, calVars, msgVars, connVars, sortVars,
           routerVars, simVars>>

NextBc ==
    \/ \E c \in Clients : add_client(c) /\ UNCHANGED notBc
    \/ \E c \in Clients : PeerCloses(c) /\ UNCHANGED notBc
    \/ \E c \in Clients : PeerFails(c) /\ UNCHANGED notBc
    \/ \E c \in Clients : remove_client(c) /\ UNCHANGED notBc
    \/ \E b \in BcIds : broadcast(b) /\ UNCHANGED notBc
    \/ \E b \in BcIds : BroadcastNext(b) /\ UNCHANGED notBc

(***************************************************************************)
(* The message dispatchers: WebSocketServer.handle_message,                *)
(* RenderWebSocketServer.handle_websocket_message and the loop body of     *)
(* MEGGIoTServer.handle_client. One message is followed at a time, from    *)
(* its arrival to the last thing its handler sends, and a behaviour        *)
(* follows the messages of one server.                                     *)
(***************************************************************************)
Dispatchers == {"websocket_server", "render_server", "simple_iot_server"}

\* the "type" of a message: "frobnicate" is a type no server knows
MessageTypes == {"ping", "calibration_request", "get_status", "frobnicate"}

\* the "command" field of a message: absent, or start_sorting
MessageCommands == {"", "start_sorting"}

\* the payloads that are no message: text that is not JSON, and JSON that is
\* not an object (a list, a number); they stand where the type of a message
\* stands
Unreadable == {"<not JSON>", "<not an object>"}

\* the messages of the model: a calibration request names a component or
\* none, a message of another type has no "component", an unreadable
\* payload has no field at all
Messages ==
    {m \in [type : MessageTypes \cup Unreadable, component : RequestComponents,
            command : MessageCommands] :
        /\ m.type # "calibration_request" => m.component = ""
        /\ m.type \in Unreadable => m.command = ""}

\* the server of this behaviour
Serves(by) == handled.by \in {"", by}

\* a message a server sends: success is its field of that name, and FALSE
\* for a message of type error, which has none
Reply(type, success, message) ==
    [type |-> type, success |-> success, message |-> message]

\* replies are the messages sent to the sender of the message, broadcasts
\* the ones sent to every client; pending tells that the handler waits at
\* an await and has more to send, ended that an exception has left the
\* receive loop of the client: its handler is over and the client is taken
\* out of the registry
NoMessage == [by |-> "", type |-> "", component |-> "", command |-> "",
              replies |-> <<>>, broadcasts |-> <<>>, pending |-> FALSE,
              ended |-> FALSE]

InitMsg == handled = NoMessage

Handled(by, type, component, command, replies, broadcasts, pending) ==
    [by |-> by, type |-> type, component |-> component, command |-> command,
     replies |-> replies, broadcasts |-> broadcasts, pending |-> pending,
     ended |-> FALSE]

\* the handler of the client ends without a word: the exception leaves
\* "async for" and the finally clause discards the client
HandlerEnds(by, type) ==
    [Handled(by, type, "", "", <<>>, <<>>, FALSE) EXCEPT !.ended = TRUE]

\* WebSocketServer.handle_message; a work_process message is not among the
\* messages of the model
handle_message(type, component, sent) ==
    /\ server = "system_manager"
    /\ Serves("websocket_server")
    /\ ~handled.pending
    /\ CASE type = "ping" ->
              /\ handled' = Handled("websocket_server", type, component, "",
                                     <<Reply("pong", TRUE, "")>>, <<>>, FALSE)
              /\ UNCHANGED calVars
         [] type = "calibration_request" ->
              /\ handle_calibration_request(component, sent)
              /\ handled' = Handled("websocket_server", type, component, "",
                      IF Answer(component, sent) = "none" THEN <<>>
                      ELSE <<Reply("calibration_result", FALSE,
                                   Answer(component, sent))>>,
                      <<>>, FALSE)
         [] type = "get_status" ->
              /\ handled' = Handled("websocket_server", type, component, "",
                                     <<Reply("system_status", TRUE, "")>>, <<>>,
                                     FALSE)
              /\ UNCHANGED calVars
         [] type = "<not JSON>" ->
              /\ handled' = Handled("websocket_server", type, component, "",
                      <<Reply("error", FALSE, "Invalid JSON format")>>, <<>>,
                      FALSE)
              /\ UNCHANGED calVars
         [] type = "<not an object>" ->
              /\ handled' = Handled("websocket_server", type, component, "",
                      <<Reply("error", FALSE, "Server error")>>, <<>>, FALSE)
              /\ UNCHANGED calVars
         [] OTHER ->
              /\ handled' = Handled("websocket_server", type, component, "",
                      <<Reply("error", FALSE, "Unknown message type")>>, <<>>,
                      FALSE)
              /\ UNCHANGED calVars

\* RenderWebSocketServer.handle_websocket_message, for a calibration request
\* up to the sleep of handle_calibration_request. This server never calls
\* initialize_arduino: its device is not connected
handle_websocket_message(type, component) ==
    /\ server = "system_manager"
    /\ Serves("render_server")
    /\ ~handled.pending
    /\ ~is_connected
    /\ handled' =
         CASE type = "ping" ->
                Handled("render_server", type, component, "",
                        <<Reply("pong", TRUE, "")>>, <<>>, FALSE)
           [] type = "calibration_request" ->
                Handled("render_server", type, component, "",
                        <<Reply("calibration_result", TRUE, "started")>>, <<>>,
                        TRUE)
           [] type = "get_status" ->
                Handled("render_server", type, component, "",
                        <<Reply("system_status", TRUE, "")>>, <<>>, FALSE)
           [] type = "<not JSON>" ->
                Handled("render_server", type, component, "",
                        <<Reply("error", FALSE, "Invalid JSON format")>>, <<>>,
                        FALSE)
           [] type = "<not an object>" ->
                Handled("render_server", type, component, "",
                        <<Reply("error", FALSE, "Server error")>>, <<>>, FALSE)
           [] OTHER ->
                Handled("render_server", type, component, "",
                        <<Reply("error", FALSE, "Unknown message type")>>, <<>>,
                        FALSE)
    /\ UNCHANGED calVars

\* RenderWebSocketServer.handle_calibration_request after its sleep
CalibrationSimulated ==
    /\ handled.pending
    /\ handled.by = "render_server"
    /\ handled' = [handled EXCEPT
           !.replies = Append(@, Reply("calibration_result", TRUE, "completed")),
           !.pending = FALSE]
    /\ UNCHANGED calVars

\* CalibrationRouter.calibrate_component when send_arduino_command answers
\* that the device is not connected
RouterNotConnected == Reply("calibration_result", FALSE, "Arduino not connected")

\* a handler that hands every calibration request to the router, whatever
\* its component
handle_client_unvalidated(type, component, command) ==
    /\ server = "simple_iot_server"
    /\ ~handled.pending
    /\ ~arduino
    /\ handled' =
         IF type = "calibration_request"
         THEN Handled("simple_iot_server", type, component, command,
                      <<>>, <<RouterNotConnected>>, FALSE)
         ELSE Handled("simple_iot_server", type, component, command,
                      <<>>, <<>>, FALSE)
    /\ UNCHANGED calVars

\* the loop body of MEGGIoTServer.handle_client for one message, on a server
\* that runs without a device; of the message types of the serial engine
\* none is among the messages of the model
handle_client(type, component, command) ==
    /\ server = "simple_iot_server"
    /\ ~handled.pending
    /\ ~arduino
    /\ handled' =
         CASE type = "calibration_request" ->
                IF Upper(component) \in Components
                THEN Handled("simple_iot_server", type, component, command,
                             <<>>, <<RouterNotConnected>>, FALSE)
                ELSE Handled("simple_iot_server", type, component, command,
                             <<Reply("error", FALSE, "Unknown component")>>,
                             <<>>, FALSE)
           [] type = "get_status" ->
                Handled("simple_iot_server", type, component, command,
                        <<Reply("system_status", TRUE, "")>>, <<>>, FALSE)
           [] type = "<not JSON>" ->
                Handled("simple_iot_server", type, component, command,
                        <<Reply("error", FALSE, "Invalid JSON")>>, <<>>, FALSE)
           [] type = "<not an object>" ->
                HandlerEnds("simple_iot_server", type)
           [] OTHER ->
                IF command = "start_sorting"
                THEN Handled("simple_iot_server", type, component, command,
                             <<Reply("sorting_result", FALSE,
                                     "Arduino not connected")>>, <<>>, FALSE)
                ELSE Handled("simple_iot_server", type, component, command,
                             <<>>, <<>>, FALSE)
    /\ UNCHANGED calVars

\* the variables the dispatchers leave alone
notMsg == <<wpVars, linkVars, bcVars, connVars, sortVars, routerVars,
            simVars>>

\* the dispatchers, with the device of the SystemManager and its events
NextMsg ==
    \/ \E m \in Messages, sent \in BOOLEAN :
          handle_message(m.type, m.component, sent) /\ UNCHANGED notMsg
    \/ \E m \in Messages :
          handle_websocket_message(m.type, m.component) /\ UNCHANGED notMsg
    \/ CalibrationSimulated /\ UNCHANGED notMsg
    \/ \E m \in Messages :
          handle_client(m.type, m.component, m.command) /\ UNCHANGED notMsg
    \/ \E c \in Components : CalibrationStart(c) /\ UNCHANGED <<wpVars, notCal>>
    \/ \E c \in Components : CalibrationComplete(c) /\ UNCHANGED <<wpVars, notCal>>
    \/ \E c \in Components : CalibrationError(c) /\ UNCHANGED <<wpVars, notCal>>
    \/ _process_events /\ UNCHANGED notCal

(***************************************************************************)
(* Connecting: ArduinoService.connect with disconnect and _send_command,   *)
(* and MEGGIoTServer.connect_arduino. A connect call is cut at its sleeps: *)
(* after the port is opened and after the probe is written.                *)
(***************************************************************************)
Ports == 1..MaxPorts

\* a port: "absent" when serial.Serial raises, "write_fails" when it opens
\* and the write raises, "silent" when it takes the write and sends nothing,
\* "answers" when a line comes back after the probe
PortKinds == {"absent", "write_fails", "silent", "answers"}

\* arduino_ports of MEGGIoTServer.__init__
arduino_ports == <<2, 3>>

\* the lists a connect call works with: available_ports (the detected ports),
\* the configured port, fallback_ports
CandidateLists ==
    [available : {<<>>, <<1>>, <<2, 1>>}, port : {1, 3},
     fallback : {<<>>, <<3, 1, 3>>}]

NoConnect == [n |-> 0, pc |-> "idle", todo |-> <<>>, tried |-> <<>>,
              result |-> ""]

\* serial_connection is None
NoSerial == [port |-> 0, is_open |-> FALSE]

InitConn ==
    /\ ports = [p \in Ports |-> "absent"]
    /\ candidates = [available |-> <<>>, port |-> 1, fallback |-> <<>>]
    /\ connecting = NoConnect
    /\ serial_connection = NoSerial
    /\ arduino_port = 0
    /\ disconnects = 0

\* "if port not in ports_to_try: ports_to_try.append(port)" for each port of
\* more, and dict.fromkeys
RECURSIVE AddNew(_, _)
AddNew(ports_to_try, more) ==
    IF more = <<>> THEN ports_to_try
    ELSE AddNew(IF \E k \in 1..Len(ports_to_try) : ports_to_try[k] = Head(more)
                THEN ports_to_try
                ELSE Append(ports_to_try, Head(more)),
                Tail(more))

\* a list that takes every port as it comes
AllAsListed(cands) == cands.available \o <<cands.port>> \o cands.fallback

\* ports_to_try of ArduinoService.connect
ports_to_try(cands) ==
    AddNew(AddNew(AddNew(<<>>, cands.available), <<cands.port>>), cands.fallback)

\* ports_to_try of MEGGIoTServer.connect_arduino
iot_ports_to_try(cands) == AddNew(<<>>, cands.available \o arduino_ports)

DisconnectedEvent ==
    [type |-> "arduino_disconnected", component |-> "", success |-> FALSE,
     status |-> "", seq |-> 0]

\* the connect call has begun with the port at the head of todo
Begun == [connecting EXCEPT !.tried = Append(@, Head(connecting.todo))]

\* the candidate has failed: the loop goes to the next one, or is over
Advance(c) ==
    IF Len(c.todo) > 1
    THEN [c EXCEPT !.todo = Tail(@), !.pc = "open"]
    ELSE [c EXCEPT !.todo = <<>>, !.pc = "done", !.result = "failure"]

Succeed(c) == [c EXCEPT !.todo = <<>>, !.pc = "done", !.result = "success"]

\* ArduinoService.disconnect: it closes the port if it is open, and emits
\* arduino_disconnected to the listeners, which queue it
Disconnect ==
    /\ serial_connection' = [serial_connection EXCEPT !.is_open = FALSE]
    /\ is_connected' = FALSE
    /\ event_queue' = Put(<<DisconnectedEvent>>)

\* ArduinoService.connect up to the first port
connect(env, cands) ==
    /\ server = "system_manager"
    /\ connecting.pc \in {"idle", "done"}
    /\ connecting.n < MaxConnects
    /\ IF is_connected
       THEN /\ connecting' = [Succeed(NoConnect) EXCEPT !.n = connecting.n + 1]
            /\ UNCHANGED <<ports, candidates>>
       ELSE /\ ports' = env
            /\ candidates' = cands
            /\ connecting' = [NoConnect EXCEPT !.n = connecting.n + 1,
                                 !.pc = "open", !.todo = ports_to_try(cands)]
    /\ UNCHANGED <<serial_connection, arduino_port, disconnects, is_connected,
                   event_queue, arduino>>

\* serial.Serial(port): when it raises, disconnect is called if a
\* serial_connection is left from an earlier port
OpenPort ==
    /\ server = "system_manager"
    /\ connecting.pc = "open"
    /\ IF ports[Head(connecting.todo)] = "absent"
       THEN /\ connecting' = Advance(Begun)
            /\ IF serial_connection.port # 0
               THEN Disconnect
               ELSE UNCHANGED <<serial_connection, is_connected, event_queue>>
       ELSE /\ connecting' = [Begun EXCEPT !.pc = "probe"]
            /\ serial_connection' = [port |-> Head(connecting.todo),
                                     is_open |-> TRUE]
            /\ UNCHANGED <<is_connected, event_queue>>
    /\ UNCHANGED <<ports, candidates, arduino_port, disconnects, arduino>>

\* _send_command("STATUS"): False when the write raises, and then disconnect
ProbePort ==
    /\ server = "system_manager"
    /\ connecting.pc = "probe"
    /\ IF ports[serial_connection.port] = "write_fails"
       THEN /\ connecting' = Advance(connecting)
            /\ Disconnect
       ELSE /\ connecting' = [connecting EXCEPT !.pc = "written"]
            /\ UNCHANGED <<serial_connection, is_connected, event_queue>>
    /\ UNCHANGED <<ports, candidates, arduino_port, disconnects, arduino>>

\* _send_command has returned True: connect marks the link connected, emits
\* arduino_connected and returns True
Connected ==
    /\ server = "system_manager"
    /\ connecting.pc = "written"
    /\ connecting' = Succeed(connecting)
    /\ is_connected' = TRUE
    /\ event_queue' = Put(<<ConnectedEvent>>)
    /\ UNCHANGED <<ports, candidates, serial_connection, arduino_port,
                   disconnects, arduino>>

\* ArduinoService.disconnect called while no connect call is under way
disconnect ==
    /\ server = "system_manager"
    /\ connecting.pc \in {"idle", "done"}
    /\ disconnects < MaxConnects
    /\ disconnects' = disconnects + 1
    /\ Disconnect
    /\ UNCHANGED <<ports, candidates, connecting, arduino_port, arduino>>

\* MEGGIoTServer.connect_arduino up to the first port
connect_arduino(env, cands) ==
    /\ server = "simple_iot_server"
    /\ connecting.pc \in {"idle", "done"}
    /\ connecting.n < MaxConnects
    /\ ports' = env
    /\ candidates' = cands
    /\ connecting' = [NoConnect EXCEPT !.n = connecting.n + 1, !.pc = "open",
                                       !.todo = iot_ports_to_try(cands)]
    /\ UNCHANGED <<serial_connection, arduino_port, disconnects, is_connected,
                   event_queue, arduino>>

\* serial.Serial(port): when it raises, the link left from an earlier port
\* is closed and arduino set to None
IotOpenPort ==
    /\ server = "simple_iot_server"
    /\ connecting.pc = "open"
    /\ IF ports[Head(connecting.todo)] = "absent"
       THEN /\ connecting' = Advance(Begun)
            /\ arduino_port' = 0
       ELSE /\ connecting' = [Begun EXCEPT !.pc = "probe"]
            /\ arduino_port' = Head(connecting.todo)
    /\ arduino' = (arduino_port' # 0)
    /\ UNCHANGED <<ports, candidates, serial_connection, disconnects,
                   is_connected, event_queue>>

\* write(b"STATUS\n"): when it raises, the link is closed and set to None
IotProbePort ==
    /\ server = "simple_iot_server"
    /\ connecting.pc = "probe"
    /\ IF ports[arduino_port] = "write_fails"
       THEN /\ connecting' = Advance(connecting)
            /\ arduino_port' = 0
       ELSE /\ connecting' = [connecting EXCEPT !.pc = "written"]
            /\ UNCHANGED arduino_port
    /\ arduino' = (arduino_port' # 0)
    /\ UNCHANGED <<ports, candidates, serial_connection, disconnects,
                   is_connected, event_queue>>

\* "if self.arduino.in_waiting > 0": a line is read and connect_arduino
\* returns True; without a line the loop goes on and arduino stays as it is
IotReadBack ==
    /\ server = "simple_iot_server"
    /\ connecting.pc = "written"
    /\ connecting' = IF ports[arduino_port] = "answers"
                     THEN Succeed(connecting)
                     ELSE Advance(connecting)
    /\ UNCHANGED <<ports, candidates, serial_connection, arduino_port,
                   disconnects, is_connected, event_queue, arduino>>

\* what the connecting actions leave alone
restConn == <<wpVars, bcVars, msgVars, current_configuration, in_waiting,
              device_lines, wire, cmds, returned, arduino_status,
              active_calibrations, serial_written, device, cal_request,
              published, sortVars, routerVars, simVars>>

NextConn ==
    \/ \E env \in [Ports -> PortKinds], cands \in CandidateLists :
          connect(env, cands) /\ UNCHANGED restConn
    \/ OpenPort /\ UNCHANGED restConn
    \/ ProbePort /\ UNCHANGED restConn
    \/ Connected /\ UNCHANGED restConn
    \/ disconnect /\ UNCHANGED restConn
    \/ \E env \in [Ports -> PortKinds], cands \in CandidateLists :
          connect_arduino(env, cands) /\ UNCHANGED restConn
    \/ IotOpenPort /\ UNCHANGED restConn
    \/ IotProbePort /\ UNCHANGED restConn
    \/ IotReadBack /\ UNCHANGED restConn

(***************************************************************************)
(* Sorting requests: the handlers of start_sorting and stop_sorting and    *)
(* the background task of the command                                      *)
(***************************************************************************)
InitSort == sorting = <<>>

\* result_type of the task: "sorting_result" for START, "sorting_stop_result"
\* for STOP
result_type(command) ==
    IF IsStart(command) THEN "sorting_result" ELSE "sorting_stop_result"

\* a message of the log: the reply of the handler to the requester (final
\* FALSE) or the payload the task broadcasts (final TRUE)
SortingMessage(t, type, final, success) ==
    [by |-> t, type |-> type, final |-> final, success |-> success]

\* a handler that sends nothing to the requester
HandleSortingSilently(command) ==
    /\ IF IsStart(command) THEN start_sorting_process ELSE stop_sorting_process
    /\ UNCHANGED sorting

\* handle_client, start_sorting / stop_sorting with the request accepted:
\* start_sorting_process or stop_sorting_process creates the task and
\* returns, and its value is sent to the requester; websocket.send writes the
\* message before it suspends
HandleSorting(command) ==
    /\ IF IsStart(command) THEN start_sorting_process ELSE stop_sorting_process
    /\ sorting' = Append(sorting,
                     SortingMessage(NextCmd, result_type(command), FALSE, TRUE))

\* the call of task t returns in this step
CallReturns(t) == cmds[t].pc \notin {"none", "done"} /\ cmds'[t].pc = "done"

\* _execute_long_running_command_and_broadcast_result after
\* send_arduino_command: when the call of a task returns, the payload is
\* built from its value and broadcast
BroadcastResult ==
    IF \E t \in CmdIds : cmds[t].background /\ CallReturns(t)
    THEN LET t == CHOOSE t \in CmdIds : cmds[t].background /\ CallReturns(t)
         IN sorting' = Append(sorting,
               SortingMessage(t, result_type(cmds[t].command), TRUE,
                              returned'.success))
    ELSE UNCHANGED sorting

\* the variables of the other parts of the server
notSort == <<wpVars, calVars, bcVars, msgVars, connVars, routerVars, simVars>>

NextSort ==
    \/ SetConfiguration /\ UNCHANGED <<sortVars, notSort>>
    \/ \E line \in Lines : DeviceSends(line) /\ UNCHANGED <<sortVars, notSort>>
    \/ \E command \in {"START", "STOP"} : HandleSorting(command) /\ UNCHANGED notSort
    \/ \E t \in CmdIds : BackgroundBegin(t) /\ BroadcastResult /\ UNCHANGED notSort
    \/ \E t \in CmdIds : WriteCommand(t) /\ UNCHANGED <<sortVars, notSort>>
    \/ \E t \in CmdIds : StartReading(t) /\ UNCHANGED <<sortVars, notSort>>
    \/ \E t \in CmdIds : ReadLines(t) /\ BroadcastResult /\ UNCHANGED notSort
    \/ \E t \in CmdIds : AfterBroadcast(t) /\ BroadcastResult /\ UNCHANGED notSort
    \/ \E t \in CmdIds : \E k \in IdlePolls(t) :
          Idle(t, k) /\ BroadcastResult /\ UNCHANGED notSort
    \/ \E t \in CmdIds : LinkFails(t) /\ BroadcastResult /\ UNCHANGED notSort

(***************************************************************************)
(* Calibration through the router: MEGGIoTServer.handle_calibration and    *)
(* CalibrationRouter.calibrate_component                                   *)
(***************************************************************************)
\* a result of calibrate_component: lines are the response lines it was
\* given, returned tells that the command came back with a response
CalibrationResult(status, success, message, lines, came_back) ==
    [status |-> status, success |-> success, message |-> message,
     lines |-> lines, returned |-> came_back]

NoCalibration == CalibrationResult("none", FALSE, "", <<>>, FALSE)

InitRouter ==
    calibration_router = [calibrating |-> FALSE, by |-> 0, result |-> NoCalibration]

\* the lines of a response that carry the error marker, and the ones that
\* carry the completion marker
ErrorLines(lines) == {k \in 1..Len(lines) : Contains(lines[k], "ERROR")}
CompletionLines(lines) ==
    {k \in 1..Len(lines) : Contains(lines[k], "CALIBRATION_COMPLETE")}

\* an interpretation that declares success only on a completion marker
InterpretStrictly(res) ==
    IF res.error # ""
    THEN CalibrationResult("failed", FALSE, res.error, <<>>, FALSE)
    ELSE IF ErrorLines(res.response) # {}
    THEN CalibrationResult("failed", FALSE,
            res.response[CHOOSE k \in ErrorLines(res.response) : TRUE],
            res.response, TRUE)
    ELSE IF CompletionLines(res.response) # {}
    THEN CalibrationResult("completed", TRUE, "Calibration completed",
                           res.response, TRUE)
    ELSE CalibrationResult("failed", FALSE, "Calibration failed", res.response, TRUE)

\* the interpretation of the value of send_arduino_command: a call that
\* failed is a failure with its error; else an error marker among the lines
\* is a failure with that line as message, and without one success is
\* declared, with or without a completion marker
Interpret(res) ==
    IF res.error # ""
    THEN CalibrationResult("failed", FALSE, res.error, <<>>, FALSE)
    ELSE IF ErrorLines(res.response) # {}
    THEN CalibrationResult("failed", FALSE,
            res.response[CHOOSE k \in ErrorLines(res.response) : TRUE],
            res.response, TRUE)
    ELSE CalibrationResult("completed", TRUE, "Calibration completed",
                           res.response, TRUE)

\* handle_calibration(component): the router rejects a component it has
\* marked calibrating without a command; else it marks it and awaits
\* send_arduino_command, which returns at once without a link
handle_calibration ==
    /\ FreeCmds # {}
    /\ IF calibration_router.calibrating
       THEN /\ calibration_router' = [calibration_router EXCEPT !.result =
                  CalibrationResult("failed", FALSE, "is already calibrating",
                                    <<>>, FALSE)]
            /\ UNCHANGED linkVars
       ELSE /\ Enter(NextCmd, "CALIBRATE_HX711", FALSE)
            /\ calibration_router' =
                  IF arduino
                  THEN [calibration_router EXCEPT !.calibrating = TRUE,
                                                  !.by = NextCmd]
                  ELSE [calibration_router EXCEPT !.result = Interpret(returned')]
            /\ UNCHANGED <<arduino, current_configuration, device_lines, wire>>

\* calibrate_component and handle_calibration after send_arduino_command:
\* when the call of the router returns, its value is interpreted, the mark
\* is taken off and the result is broadcast
RouterReturns ==
    IF calibration_router.calibrating /\ CallReturns(calibration_router.by)
    THEN calibration_router' = [calibration_router EXCEPT
            !.calibrating = FALSE, !.result = Interpret(returned')]
    ELSE UNCHANGED calibration_router

\* the variables of the other parts of the server
notRouter == <<wpVars, calVars, bcVars, msgVars, connVars, sortVars, simVars>>

NextRouter ==
    \/ handle_calibration /\ UNCHANGED notRouter
    \/ \E line \in Lines : DeviceSends(line) /\ UNCHANGED <<routerVars, notRouter>>
    \/ \E t \in CmdIds : WriteCommand(t) /\ UNCHANGED <<routerVars, notRouter>>
    \/ \E t \in CmdIds : StartReading(t) /\ UNCHANGED <<routerVars, notRouter>>
    \/ \E t \in CmdIds : ReadLines(t) /\ UNCHANGED <<routerVars, notRouter>>
    \/ \E t \in CmdIds : AfterBroadcast(t) /\ RouterReturns /\ UNCHANGED notRouter
    \/ \E t \in CmdIds : \E k \in IdlePolls(t) :
          Idle(t, k) /\ RouterReturns /\ UNCHANGED notRouter
    \/ \E t \in CmdIds : LinkFails(t) /\ RouterReturns /\ UNCHANGED notRouter

(***************************************************************************)
(* Simulated calibration: CalibrationManager.simulate_calibration, with    *)
(* the requests that test its marks                                        *)
(***************************************************************************)
\* the components simulated: one with an entry in calibration_config and one
\* that gets the default configuration
SimComponents == {"HX711", "LASER"}

\* a call: pc is "none" when no call is under way, else the await the call
\* is suspended at: "started", "progress" and "result" are the send_callback
\* of that status, "progress_delay" and "main_delay" the sleeps, "error" the
\* send_callback of the except clause; ended tells how the last call ended
NoSimulation == [pc |-> "none", calls |-> 0, ended |-> ""]

InitSim == simulation = [c \in SimComponents |-> NoSimulation]

\* simulate_calibration(component, send_callback) up to its first await:
\* start_calibration and the send of the started message
simulate_calibration(c) ==
    /\ simulation[c].pc = "none"
    /\ simulation[c].calls < MaxSimulations
    /\ active_calibrations' = start_calibration(c)
    /\ simulation' = [simulation EXCEPT ![c].pc = "started", ![c].calls = @ + 1]

\* the awaits of the try block in their order
AfterAwait(pc) ==
    CASE pc = "started" -> "progress_delay"
      [] pc = "progress_delay" -> "progress"
      [] pc = "progress" -> "main_delay"
      [] pc = "main_delay" -> "result"

\* an await before the result returns: the call goes on to the next one
SimulationStep(c) ==
    /\ simulation[c].pc \in {"started", "progress_delay", "progress", "main_delay"}
    /\ simulation' = [simulation EXCEPT ![c].pc = AfterAwait(@)]
    /\ UNCHANGED active_calibrations

\* the send of the result returns: complete_calibration, and the result,
\* a success or a simulated failure, is returned
SimulationResult(c, success) ==
    /\ simulation[c].pc = "result"
    /\ active_calibrations' = complete_calibration(c)
    /\ simulation' = [simulation EXCEPT ![c].pc = "none",
          ![c].ended = IF success THEN "completed" ELSE "failed"]

\* a send_callback of the try block raises: the except clause sends the
\* error result
SimulationCallbackRaises(c) ==
    /\ simulation[c].pc \in {"started", "progress", "result"}
    /\ simulation' = [simulation EXCEPT ![c].pc = "error"]
    /\ UNCHANGED active_calibrations

\* the send of the error result returns: complete_calibration, and the
\* error result is returned
SimulationErrorSent(c) ==
    /\ simulation[c].pc = "error"
    /\ active_calibrations' = complete_calibration(c)
    /\ simulation' = [simulation EXCEPT ![c].pc = "none", ![c].ended = "error"]

\* the send of the error result raises too: the exception leaves the call
SimulationErrorCallbackRaises(c) ==
    /\ simulation[c].pc = "error"
    /\ simulation' = [simulation EXCEPT ![c].pc = "none", ![c].ended = "raised"]
    /\ UNCHANGED active_calibrations

\* the variables the simulation leaves alone
notSim == <<wpVars, linkVars, bcVars, msgVars, connVars, sortVars, routerVars,
           is_connected, arduino_status, serial_written, event_queue, device,
           cal_request, published>>

NextSim ==
    \/ \E c \in SimComponents : simulate_calibration(c) /\ UNCHANGED notSim
    \/ \E c \in SimComponents : SimulationStep(c) /\ UNCHANGED notSim
    \/ \E c \in SimComponents, success \in BOOLEAN :
          SimulationResult(c, success) /\ UNCHANGED notSim
    \/ \E c \in SimComponents : SimulationCallbackRaises(c) /\ UNCHANGED notSim
    \/ \E c \in SimComponents : SimulationErrorSent(c) /\ UNCHANGED notSim
    \/ \E c \in SimComponents : SimulationErrorCallbackRaises(c) /\ UNCHANGED notSim
    \/ \E component \in SimComponents, sent \in BOOLEAN :
          /\ handle_calibration_request(component, sent)
          /\ UNCHANGED <<wpVars, notCal>>

(***************************************************************************)
(* The specifications: each runs one part of the server from the initial   *)
(* state of all of them                                                    *)
(***************************************************************************)
Init ==
    /\ InitWP /\ InitLink /\ InitCal /\ InitBc /\ InitMsg /\ InitConn /\ InitSort
    /\ InitRouter /\ InitSim

\* websocket_server.py: the SystemManager, without a MEGGIoTServer
SystemManagerServer == Init /\ server = "system_manager" /\ arduino = FALSE

\* simple_iot_server.py: the MEGGIoTServer, without a SystemManager
SimpleIotServer == Init /\ server = "simple_iot_server" /\ is_connected = FALSE

\* either server, its device not connected
NoDevice == Init /\ arduino = FALSE /\ is_connected = FALSE

\* websocket_server.py after initialize_arduino has connected the device
DeviceConnected == SystemManagerServer /\ is_connected = TRUE

SpecWP == DeviceConnected /\ [][NextWP]_vars

SpecLink == SimpleIotServer /\ [][NextLink]_vars

SpecCal == SystemManagerServer /\ [][NextCal]_vars

SpecBc == NoDevice /\ [][NextBc]_vars

\* a server after its start: the MEGGIoTServer, which has no SystemManager,
\* has found no device and runs without one; the device of the
\* SystemManager is connected or not
ServersStarted ==
    Init /\ arduino = FALSE /\ (server = "simple_iot_server" => ~is_connected)

SpecMsg == ServersStarted /\ [][NextMsg]_vars

SpecConn == NoDevice /\ [][NextConn]_vars

SpecBatch == DeviceConnected /\ [][NextBatch]_vars

\* simple_iot_server.py with its device connected or not
SpecSort == SimpleIotServer /\ [][NextSort]_vars

SpecRouter == SimpleIotServer /\ [][NextRouter]_vars

SpecSim == SystemManagerServer /\ [][NextSim]_vars

(***************************************************************************)
(* Claims about the serial command engine, checked under SpecLink.         *)
(***************************************************************************)
\* C1: at any instant at most one send_arduino_command is in flight on the
\* serial link: a second call does not clear the buffers, write or read
\* before the first has returned.
C1_OneCommandInFlight == Cardinality({t \in CmdIds : InFlight(t)}) <= 1

\* call t returns in this step
Returning(t) == cmds[t].pc # "done" /\ cmds'[t].pc = "done"

\* the result has a line with the error marker
HasErrorLine(result) ==
    \E k \in 1..Len(result.response) : Contains(result.response[k], "ERROR")

\* C12: every call of send_arduino_command returns, whatever the device
\* sends, the lines without a marker included. Stated by the variant of the
\* read loop: a turn of the loop that does not end the call uses up some of
\* the command's budget, so that no stream of lines keeps the loop going.
C12_EveryTurnEndsOrUsesBudget ==
    [][\A t \in CmdIds :
          (cmds[t].pc = "reading" /\ cmds'[t] # cmds[t] /\ ~Returning(t))
             => cmds'[t].timeout > cmds[t].timeout
      ]_vars

\* C13: when a CALIBRATE_*, START or STOP command returns its result, the
\* lines broadcast as progress are the non-empty lines it has read, in the
\* order read.
C13_EveryLineStreamed ==
    [][\A t \in CmdIds :
          (/\ Returning(t) /\ returned'.success
           /\ \/ IsCalibrate(returned'.command)
              \/ IsStart(returned'.command)
              \/ IsStop(returned'.command))
             => cmds[t].streamed = returned'.response
      ]_vars

\* C14: a result whose response has a line with the error marker is a
\* failure (success false) and carries that line.
C14_ErrorMarkerFails ==
    (returned.by # 0 /\ HasErrorLine(returned))
       => /\ ~returned.success
          /\ Contains(Message(returned.response), "ERROR")

\* C15: the results that say "No response" are the results of the calls
\* whose budget was exhausted without a terminal marker, whatever lines they
\* collected; so such a result is told from one ended by a marker.
C15_TimeoutReportedAsNoResponse ==
    (returned.by # 0 /\ returned.success)
       => (returned.ended_by = "budget"
              <=> Message(returned.response) = "No response")

\* C16: a call always hands a result to its caller; when the link is not
\* open or a write or read on it fails, the result is a failure with an
\* error and no response lines, and a result with an error-marker line
\* carries no error: the two differ in kind.
C16_LinkFailureIsConnectivityError ==
    [][\A t \in CmdIds :
          Returning(t)
             => /\ returned'.by = t
                /\ returned'.ended_by \in {"exception", "not_connected"}
                      => /\ ~returned'.success
                         /\ returned'.error # ""
                         /\ returned'.response = <<>>
                /\ HasErrorLine(returned')
                      => returned'.error = "" /\ returned'.response # <<>>
      ]_vars

\* a call whose command was written has failed at a read
C16_Witness ==
    /\ returned.ended_by = "exception"
    /\ \E k \in 1..Len(wire) : wire[k].by = returned.by
                                 /\ wire[k].text = returned.command

\* the call has returned on its budget without a line from the device
Silent(result) ==
    result.by # 0 /\ result.ended_by = "budget" /\ result.response = <<>>

\* C17, as claimed: with a silent device the idle polls of a call are the
\* budget of its class: the short one for STATUS and other commands, a
\* larger one for CALIBRATE_*, and one and the same largest budget for START
\* and STOP; the counter never exceeds it.
C17_StartAndStopSameBudget ==
    /\ Silent(returned) =>
          /\ returned.command \in {"STATUS", "HOME"}
                => returned.timeout = OtherBudget
          /\ IsCalibrate(returned.command)
                => returned.timeout = CalibrateBudget
                   /\ CalibrateBudget > OtherBudget
          /\ (IsStart(returned.command) \/ IsStop(returned.command))
                => returned.timeout = StartBudget /\ StartBudget > CalibrateBudget
    /\ \A t \in CmdIds :
          InFlight(t) => cmds[t].timeout <= StartBudget

\* C17, amended: as above, but STOP has a budget of its own, larger than
\* that of CALIBRATE_* and smaller than that of START, which is the largest.
C17_BudgetByClass ==
    /\ Silent(returned) =>
          /\ returned.command \in {"STATUS", "HOME"}
                => returned.timeout = OtherBudget
          /\ IsCalibrate(returned.command)
                => returned.timeout = CalibrateBudget
                   /\ CalibrateBudget > OtherBudget
          /\ IsStop(returned.command)
                => returned.timeout = StopBudget /\ StopBudget > CalibrateBudget
          /\ IsStart(returned.command)
                => returned.timeout = StartBudget /\ StartBudget > StopBudget
    /\ \A t \in CmdIds :
          /\ InFlight(t) => cmds[t].timeout <= StartBudget
          /\ (InFlight(t) /\ ~IsStart(cmds[t].command))
                => cmds[t].timeout <= StopBudget
          /\ (InFlight(t) /\ ~IsStart(cmds[t].command) /\ ~IsStop(cmds[t].command))
                => cmds[t].timeout <= CalibrateBudget
          /\ (InFlight(t) /\ cmds[t].command \in {"STATUS", "HOME"})
                => cmds[t].timeout <= OtherBudget

\* a STOP command has run out on a silent device while a calibration command
\* counts its idle polls
C17_Witness ==
    /\ Silent(returned) /\ IsStop(returned.command)
    /\ \E t \in CmdIds : /\ InFlight(t) /\ IsCalibrate(cmds[t].command)
                          /\ cmds[t].timeout > 0

(***************************************************************************)
(* Claims about broadcast, checked under SpecBc.                           *)
(***************************************************************************)
\* a broadcast returns, or is left by an exception, in this step
Returns == \E b \in BcIds : bcs[b].pc # "over" /\ bcs'[b].pc = "over"

\* C9: when a broadcast ends, the event was sent exactly once to every
\* observer that was registered at the call and is still registered and
\* connected, and never to an observer unregistered before the call.
C9_DeliveredOnceToEachObserver ==
    [][Returns =>
          /\ \A c \in last_broadcast'.before :
                (c \in connected_clients' /\ conn[c] = "open")
                   => last_broadcast'.delivered[c] = 1
          /\ \A c \in last_broadcast'.gone_before : last_broadcast'.delivered[c] = 0
      ]_vars

\* C10: when a broadcast ends and nothing else changed the registry
\* meanwhile, the registry is the one at the call minus exactly the
\* observers whose send failed, and every observer of it was attempted.
C10_RegistryMinusFailed ==
    [][(Returns /\ ~last_broadcast'.changed) =>
          /\ connected_clients' = last_broadcast'.before \ last_broadcast'.failed
          /\ \A c \in last_broadcast'.before :
                last_broadcast'.delivered[c] > 0 \/ c \in last_broadcast'.failed
      ]_vars

(***************************************************************************)
(* Claims about calibration requests, checked under SpecCal.               *)
(***************************************************************************)
\* C8: a calibration request for a component that is marked calibrating is
\* answered with a failure and writes no command to the device.
C8_RejectWhileCalibrating ==
    [][\A c \in Components :
          (/\ cal_request' # cal_request
           /\ Upper(cal_request'.component) = c
           /\ arduino_status[c] = "calibrating")
          => /\ cal_request'.answer # "none"
             /\ serial_written' = serial_written
      ]_vars

\* C11: the events the event processor has broadcast are the first events
\* put on the queue, in the order in which they were put: the k-th event
\* published is the k-th event queued, and the queue holds the next ones in
\* order.
C11_PublishedInQueueOrder ==
    /\ \A k \in 1..Len(published) : published[k].seq = k
    /\ \A k \in 1..Len(event_queue) : event_queue[k].seq = Len(published) + k

\* C30: a component has the status calibrating only while the calibration
\* command that the device has started for it has not ended: after the
\* CALIBRATION_COMPLETE or the error line that ends the command, the
\* component is not calibrating.
C30_CalibratingOnlyDuringCommand ==
    \A c \in Components : arduino_status[c] = "calibrating" => device[c].started

\* several events were waiting together and the processor has drained some
C11_Witness ==
    /\ Len(published) >= 3
    /\ Len(event_queue) >= 2
    /\ \E k \in 1..Len(published) : published[k].type = "calibration_result"

(***************************************************************************)
(* Claims about the message dispatchers, checked under SpecMsg.            *)
(***************************************************************************)
\* a step in which a server handles a message, or goes on handling it
Handles == handled' # handled \/ cal_request' # cal_request

\* everything the handler has sent for the message
Sent(h) == h.replies \o h.broadcasts

\* C18: a calibration request for a supported component, handled while the
\* device is not connected, produces exactly one calibration_result, with
\* success false and the not-connected message, writes nothing to the
\* device and leaves the status of every component as it was.
C18_NotConnectedFailsOnce ==
    [][(/\ Handles
        /\ handled'.type = "calibration_request"
        /\ Upper(handled'.component) \in Components
        /\ ~is_connected
        /\ ~arduino)
       => /\ ~handled'.pending
          /\ Sent(handled') = <<Reply("calibration_result", FALSE,
                                      "Arduino not connected")>>
          /\ UNCHANGED <<serial_written, wire, arduino_status, component_status,
                         event_queue>>
      ]_vars

C21_HandlerSurvivesEveryMessage ==
    [][(/\ Handles
        /\ handled'.by \in {"websocket_server", "simple_iot_server"})
       => /\ ~handled'.ended
          /\ handled'.type \in Unreadable
               => /\ Len(handled'.replies) = 1
                  /\ handled'.replies[1].type = "error"
      ]_vars

\* the message types each dispatcher has a branch for
Recognized(by) ==
    CASE by = "websocket_server" ->
           {"ping", "calibration_request", "work_process", "get_status"}
      [] by = "render_server" -> {"ping", "calibration_request", "get_status"}
      [] by = "simple_iot_server" ->
           {"calibration_request", "get_status", "get_weight",
            "set_configuration", "send_command", "start_sorting", "stop_sorting"}

\* C20: a message whose type the server does not recognize gets exactly one
\* reply, an error naming the unknown message type, and has no other
\* effect.
C20_UnknownTypeOneErrorReply ==
    [][(/\ Handles
        /\ handled'.by \in Dispatchers
        /\ handled'.type \in MessageTypes
        /\ handled'.type \notin Recognized(handled'.by))
       => /\ handled'.replies = <<Reply("error", FALSE, "Unknown message type")>>
          /\ handled'.broadcasts = <<>>
          /\ UNCHANGED <<wpVars, linkVars, calVars, bcVars>>
      ]_vars

\* the message types all three dispatchers are sent, malformed JSON included
SharedTypes == {"ping", "calibration_request", "get_status", "frobnicate",
                "<not JSON>"}

\* the types and outcomes of what a handler has sent, in order
Outcome(h) == [k \in 1..Len(Sent(h)) |-> <<Sent(h)[k].type, Sent(h)[k].success>>]

\* the outcome of WebSocketServer.handle_message for a message of a shared
\* type while the device is not connected
SharedOutcome(type) ==
    CASE type = "ping" -> << <<"pong", TRUE>> >>
      [] type = "calibration_request" -> << <<"calibration_result", FALSE>> >>
      [] type = "get_status" -> << <<"system_status", TRUE>> >>
      [] OTHER -> << <<"error", FALSE>> >>

\* C39: the three servers answer a message of a shared type (ping,
\* calibration_request, get_status, unknown type, malformed JSON) alike when
\* in the same device state: once the message is handled, each has sent the
\* reply types and success values that WebSocketServer.handle_message sends.
C39_ServersAnswerAlike ==
    [][(/\ Handles
        /\ handled'.by \in Dispatchers
        /\ ~handled'.pending
        /\ handled'.type \in SharedTypes
        /\ handled'.component # ""
               \/ handled'.type # "calibration_request"
        /\ handled'.command = ""
        /\ ~is_connected /\ ~arduino)
       => Outcome(handled') = SharedOutcome(handled'.type)
      ]_vars

(***************************************************************************)
(* Claims about connecting, checked under SpecConn.                        *)
(***************************************************************************)
\* the candidate ports as the call was given them, repetitions included
Listed ==
    IF server = "system_manager" THEN AllAsListed(candidates)
    ELSE candidates.available \o arduino_ports

\* the places of Listed at which a port stands for the first time
Firsts == {i \in 1..Len(Listed) : \A j \in 1..(i - 1) : Listed[j] # Listed[i]}

\* the probe of the server: ArduinoService asks that STATUS was written,
\* MEGGIoTServer that a line came back
Passes(p) ==
    IF server = "system_manager" THEN ports[p] \in {"silent", "answers"}
    ELSE ports[p] = "answers"

LastTried == connecting.tried[Len(connecting.tried)]

\* C22: the ports a connect call opens are the distinct candidates in the
\* order in which they were listed, each at most once; every port before the
\* last one opened has failed; the call returns success only on a port that
\* passes the probe, and failure only when every distinct candidate was
\* opened and failed.
C22_EachCandidateOnceInOrder ==
    /\ Len(connecting.tried) <= Cardinality(Firsts)
    /\ \A k \in 1..Len(connecting.tried) :
          \E i \in Firsts :
             /\ Cardinality({j \in Firsts : j <= i}) = k
             /\ Listed[i] = connecting.tried[k]
    /\ \A k \in 1..(Len(connecting.tried) - 1) : ~Passes(connecting.tried[k])
    /\ (connecting.result = "success" /\ connecting.tried # <<>>)
          => Passes(LastTried)
    /\ connecting.result = "failure"
          => /\ Len(connecting.tried) = Cardinality(Firsts)
             /\ \A k \in 1..Len(connecting.tried) : ~Passes(connecting.tried[k])

\* ArduinoService.connect has succeeded on its third port, after two ports
\* that failed, with a list that named a port more than once
C22_Witness ==
    /\ server = "system_manager"
    /\ connecting.result = "success"
    /\ Len(connecting.tried) = 3
    /\ Len(Listed) > Cardinality(Firsts)

\* C23: a connect call returns success only on a port from which a line was
\* read back after the STATUS probe.
C23_SuccessNeedsLineReadBack ==
    (connecting.result = "success" /\ connecting.tried # <<>>)
       => ports[LastTried] = "answers"

\* C24: when a connect call has returned failure no connection is retained:
\* the link is closed and None, and the device is marked not connected.
C24_NoLinkAfterFailure ==
    (connecting.pc = "done" /\ connecting.result = "failure")
       => /\ ~arduino
          /\ ~serial_connection.is_open
          /\ ~is_connected

\* C25: while the link is closed and not connected, no arduino_disconnected
\* event is emitted to the listeners.
C25_NoEventWhenClosed ==
    [][(~is_connected /\ ~serial_connection.is_open)
       => \/ Len(event_queue') <= Len(event_queue)
          \/ event_queue'[Len(event_queue')].type # "arduino_disconnected"
      ]_vars

(***************************************************************************)
(* Claims about the work process, checked under SpecWP.                    *)
(***************************************************************************)
Phases == <<"getting_ready", "load_eggs", "ready_to_process", "processing",
            "completed">>

NextPhase(status) ==
    CASE status = "idle" -> "getting_ready"
      [] status = "getting_ready" -> "load_eggs"
      [] status = "load_eggs" -> "ready_to_process"
      [] status = "ready_to_process" -> "processing"
      [] status = "processing" -> "completed"
      [] OTHER -> "none"

\* run r was created with the current batch, and neither a successful stop
\* nor a reset happened since
Undisturbed(r) == current_batch.id = r /\ runs[r].interrupted = "no"

OfType(log, type) == SelectSeq(log, LAMBDA e : e.type = type)

\* C2: while a batch runs that is neither stopped nor reset, and no callback
\* has raised, every change of
\* ProcessState is the step to the next phase of idle, getting_ready,
\* load_eggs, ready_to_process, processing, completed; and when its run has
\* sent the completed update, ProcessState is completed and the run's
\* process_update events are those five phases in order.
C2_PhasesInStrictOrder ==
    [][\A r \in RunIds :
          /\ (/\ Undisturbed(r) /\ runs[r].pc \notin {"none", "done"}
              /\ runs'[r].interrupted = "no"
              /\ current_status # "error" /\ current_status' # "error"
              /\ current_status' # current_status)
             => current_status' = NextPhase(current_status)
          /\ (Undisturbed(r) /\ runs'[r].pc = "finishing" /\ runs[r].pc # "finishing"
              /\ runs'[r].interrupted = "no")
             => /\ current_status' = "completed"
                /\ [k \in 1..Len(OfType(events'[r], "process_update")) |->
                       OfType(events'[r], "process_update")[k].status] = Phases
      ]_vars

\* C3: a run that was in progress when stop_processing succeeded or
\* reset_process was called finishes at most the unit that was in
\* progress (statistics and egg_result of that unit), and then sends no event
\* and changes nothing of the work process; ProcessState leaves idle only by a
\* start_batch, to getting_ready.
C3_StopTakesEffect ==
    [][/\ \A r \in RunIds :
             /\ (runs[r].interrupted = "yes" /\ runs'[r] # runs[r])
                => /\ events'[r] \in {events[r], <<>>}
                   /\ UNCHANGED <<current_status, current_batch, processing_stats,
                                  is_processing, current_egg_count,
                                  target_egg_count>>
             /\ (runs[r].interrupted = "in_unit" /\ runs'[r] # runs[r])
                => /\ events'[r] = <<EggEvent(runs[r].i + 1)>>
                   /\ UNCHANGED <<current_status, current_batch, is_processing>>
       /\ (current_status = "idle" /\ current_status' # "idle")
             => /\ current_status' = "getting_ready"
                /\ \E r \in RunIds : runs[r].pc = "none" /\ runs'[r].pc = "scheduled"
      ]_vars

\* C26: every change of ProcessState is a step to the next phase of idle,
\* getting_ready, load_eggs, ready_to_process, processing, completed, or a
\* change to error, or a change to idle; the state leaves idle only to
\* getting_ready, in the step of a start_batch that schedules a run.
C26_OnlyForwardErrorOrIdle ==
    [][current_status' # current_status
       => \/ /\ current_status # "idle"
             /\ current_status' = NextPhase(current_status)
          \/ /\ current_status = "idle"
             /\ current_status' = "getting_ready"
             /\ \E r \in RunIds : runs[r].pc = "none" /\ runs'[r].pc = "scheduled"
          \/ current_status' = "error"
          \/ current_status' = "idle"
      ]_vars

\* C27: when a step of the phase sequence raises, execute_work_process sets
\* ProcessState to error and emits an error update; the call then returns
\* without raising to its caller and leaves is_processing false.
C27_FaultEndsInErrorResult ==
    [][\A r \in RunIds :
          /\ (runs[r].pc # "failed" /\ runs'[r].pc = "failed")
             => /\ current_status' = "error"
                /\ events'[r][Len(events'[r])] = UpdateEvent("error", ZeroStats)
          /\ (runs[r].pc = "failed" /\ runs'[r].pc = "done")
             => /\ runs'[r].interrupted # "raised"
                /\ ~is_processing'
      ]_vars

C29_CompletionFreezesBatch ==
    [][(/\ current_batch # None
        /\ current_batch' # current_batch
        /\ current_batch'.id = current_batch.id)
       => /\ ~current_batch.completed
          /\ current_batch'.completed
          /\ runs[current_batch.id].pc # "finishing"
          /\ runs'[current_batch.id].pc = "finishing"
          /\ current_batch'.stats.totalProcessed = current_batch.target_count
      ]_vars

\* C4: in every state, stop_processing reports success exactly when a
\* work-process run is active, and the statistics it then returns count the
\* units completed so far.
C4_StopSucceedsIffRunActive ==
    /\ stop_processing_result.success <=> \E r \in RunIds : RunActive(r)
    /\ stop_processing_result.success
          => stop_processing_result.stats.totalProcessed = current_egg_count

\* C5: in every state, start_batch succeeds exactly when ProcessState is idle,
\* no run is in progress and all five components are ready.
C5_StartSucceedsIffIdleNoRunAllReady ==
    start_batch_result.success
       <=> /\ current_status = "idle"
           /\ ~ \E r \in RunIds : RunActive(r)
           /\ \A c \in Components : component_status[c]

\* C6: at most one execute_work_process run is executing at any time.
C6_AtMostOneRun ==
    Cardinality({r \in RunIds : RunActive(r)}) <= 1

\* C7: when the run of a batch of n eggs that was neither stopped nor reset
\* has sent its completed update, it has sent exactly the egg_result events
\* 1..n in increasing order before it, and the completed update carries
\* totalProcessed = n and goodEggs + badEggs = n.
C7_BatchOfNEmitsNResults ==
    \A r \in RunIds :
       (Undisturbed(r) /\ runs[r].pc = "finishing")
       => LET log == events[r]
              n == current_batch.target_count
              eggs == OfType(log, "egg_result")
              final == log[Len(log)]
          IN /\ Len(eggs) = n
             /\ \A k \in 1..Len(eggs) : eggs[k].egg_number = k
             /\ final.type = "process_update" /\ final.status = "completed"
             /\ final.stats.totalProcessed = n
             /\ final.stats.goodEggs + final.stats.badEggs = n

(***************************************************************************)
(* Claims about the readiness of the components                            *)
(***************************************************************************)
\* the calibration_result events of the given status for component c that
\* the event processor has handled
ResultsHandled(c, status) ==
    {k \in 1..Len(published) :
        /\ published[k].type = "calibration_result"
        /\ published[k].component = c
        /\ published[k].status = status}

\* C31: a component is ready for the batch gate only when a
\* CALIBRATION_COMPLETE of that component has been handled; the
\* CALIBRATION_START of a calibration that has not completed, or any other
\* line, never makes the component ready.
C31_ReadyOnlyAfterComplete ==
    \A c \in Components :
       component_status[c] => ResultsHandled(c, "completed") # {}

\* C37: once the device has answered the latest calibration of a component
\* with an error line and the events of that line are handled, the component
\* is not ready, whether it was made ready by an earlier calibration or by
\* the start of this one.
C37_FailedCalibrationClearsReadiness ==
    \A c \in Components :
       (device[c].failed /\ event_queue = <<>>) => ~component_status[c]

(***************************************************************************)
(* Claims about sorting requests, checked under SpecSort.                  *)
(***************************************************************************)
\* the positions in the log of the messages for task t, replies of the
\* handler (final FALSE) or broadcasts of the task (final TRUE)
SortingOf(t, final) ==
    {k \in 1..Len(sorting) : sorting[k].by = t /\ sorting[k].final = final}

\* C32: every accepted start_sorting or stop_sorting request has its
\* acknowledgement sent to the requester at once, and exactly one final
\* sorting_result (for stop_sorting: sorting_stop_result) is broadcast for it,
\* when its hardware command has ended and after the acknowledgement.
C32_AckThenOneFinalResult ==
    \A t \in CmdIds :
       /\ cmds[t].pc # "none" => Cardinality(SortingOf(t, FALSE)) = 1
       /\ Cardinality(SortingOf(t, TRUE)) = (IF cmds[t].pc = "done" THEN 1 ELSE 0)
       /\ \A k \in SortingOf(t, TRUE) :
             \E j \in SortingOf(t, FALSE) :
                j < k /\ sorting[j].type = sorting[k].type

\* both a start and a stop request were acknowledged and later got their
\* final result, the one of the stop request first
C32_Witness ==
    \E j, k \in 1..Len(sorting) :
       /\ j < k
       /\ sorting[j].final /\ sorting[j].type = "sorting_stop_result"
       /\ sorting[k].final /\ sorting[k].type = "sorting_result"
       /\ sorting[k].by < sorting[j].by

(***************************************************************************)
(* Claims about the calibration router, checked under SpecRouter.          *)
(***************************************************************************)
\* C33: after the calibration command has returned with its response lines,
\* the calibration result has success = true exactly when no line of the
\* response carries the error marker, also when no line carries the
\* completion marker either; with an error marker the result has success =
\* false and the line with the marker as message.
C33_SuccessIffNoErrorLine ==
    LET result == calibration_router.result
    IN result.returned =>
          /\ result.success <=> ErrorLines(result.lines) = {}
          /\ \A k \in ErrorLines(result.lines) : result.message = result.lines[k]

\* a command came back with a line but neither marker and the result is a
\* success
C33_Witness ==
    LET result == calibration_router.result
    IN /\ result.returned /\ result.success
       /\ result.lines # <<>>
       /\ ErrorLines(result.lines) = {} /\ CompletionLines(result.lines) = {}

(***************************************************************************)
(* Claims about the statistics of the work process, checked under SpecWP.  *)
(***************************************************************************)
\* C34: in every reachable state, whatever the interleaving of start_batch,
\* stop_processing, reset_process and the units of the runs, goodEggs +
\* badEggs = totalProcessed = current_egg_count and smallEggs + mediumEggs +
\* largeEggs = goodEggs.
C34_StatsAddUp ==
    LET st == processing_stats
    IN /\ st.goodEggs + st.badEggs = st.totalProcessed
       /\ st.totalProcessed = current_egg_count
       /\ st.smallEggs + st.mediumEggs + st.largeEggs = st.goodEggs

\* a run that was reset keeps counting: a good and a bad egg are counted
\* while there is no batch
C34_Witness ==
    /\ current_batch = None
    /\ processing_stats.goodEggs > 0 /\ processing_stats.badEggs > 0

\* C35: in every reachable state totalProcessed is at most the target count
\* of the current batch, and 0 when there is no current batch.
C35_ProcessedWithinTarget ==
    IF current_batch = None
    THEN processing_stats.totalProcessed = 0
    ELSE processing_stats.totalProcessed <= current_batch.target_count

(***************************************************************************)
(* Claims about a registry that changes during a broadcast, checked under  *)
(* SpecBc.                                                                 *)
(***************************************************************************)
\* C36: a client that connects or disconnects between two sends of a
\* broadcast does not make the broadcast fail: the broadcast returns, every
\* observer registered for its whole duration and still connected has
\* received the event, and the registry then holds connected observers only.
C36_RegistryChangeDuringBroadcast ==
    [][(/\ Returns
        /\ last_broadcast'.changed
        /\ \A c \in Clients : conn[c] # "failing")
       => /\ last_broadcast'.pc = "done"
          /\ \A c \in last_broadcast'.before \cap connected_clients' :
                conn'[c] = "open" => last_broadcast'.delivered[c] >= 1
          /\ \A c \in connected_clients' : conn'[c] = "open"]_vars

(***************************************************************************)
(* Claims about the simulated calibration, checked under SpecSim.          *)
(***************************************************************************)
\* C38: a component is marked calibrating only while a call of
\* simulate_calibration for it is under way: after every exit of the call
\* (success, simulated failure, exception, a failing send callback included)
\* the mark is off, so that no later request for the component is rejected
\* as already calibrating.
C38_MarkedOnlyDuringCall ==
    \A c \in SimComponents :
       /\ simulation[c].pc = "none" => ~is_calibrating(c)
       /\ (cal_request.component = c /\ cal_request.answer = "is already calibrating")
             => simulation[c].pc # "none"

====
